---- MODULE Spec2Model ----
(***************************************************************************)
(* A model of pssit_har_auth_replay.py: HAR loading, auth-step             *)
(* classification, candidate-flow construction, the ASCII diagram, the     *)
(* replay of the flow over a live HTTP session and the report.             *)
(*                                                                         *)
(* Conventions.  A Python str is a sequence of one-character strings; a    *)
(* value that may be None (a JSON null or an absent key read through       *)
(* dict.get) is a record [some, v]; a list of references to dicts (the     *)
(* candidate flow) is a sequence of indices into the analysed list.        *)
(***************************************************************************)
EXTENDS Integers, Sequences, FiniteSets, TLC

VARIABLES
    again,     \* the result of a second pass of analyze_entries
    vmd,       \* vm_decommission.py: the VMDecommissioner, its batch, its worker
               \* threads and the calls the PSSIT client received
    pc,        \* position of main(): start, loaded, analyzed, built, diagrammed,
               \* replay_get, replay_submit, replay_fallback, replay_final,
               \* replayed, written, crashed; decode and decoded for a lone
               \* call of decode_saml_response_from_html
    har,       \* the HAR file given with --har
    args,      \* --start-url, --user, --pass
    entries,   \* extract_entries(har)
    analyzed,  \* analyze_entries(entries)
    flow,      \* build_candidate_flow(analyzed): indices into analyzed
    diagram,   \* generate_ascii_diagram(flow)
    steps,     \* replay_flow: report_steps
    jar,       \* replay_flow: session.cookies
    net,       \* the HTTP requests the session has sent, in order
    resp,      \* replay_flow: the responses r and r2, and whether the except
               \* clause around the replay has run
    fbi,       \* replay_flow: position of the fallback loop in flow_entries[:10]
    report,    \* the return value of replay_flow
    exc,       \* the exception that ended main() and where it was raised
    html,      \* the parsed page given to decode_saml_response_from_html
    decoded,   \* what decode_saml_response_from_html returned for html
    final,     \* main: final_report, once it has been assembled and written
    pwb,       \* VMPowerManager.process_batch: futures, results, return
    pvm,       \* VMPowerManager.process_vm: the VM, the call's position, the
               \* requests sent to vCenter and the VMOperation being filled
    sso        \* PSSITAuthenticator.get_saml_token: the server, the call's
               \* position, resp, the session's cookies and the outcome

vars == <<final, pwb, pvm, sso, again, vmd, pc, har, args, entries, analyzed, flow, diagram, steps, jar, net, resp,
          fbi, report, exc, html, decoded>>

(***************************************************************************)
(* Python values                                                           *)
(***************************************************************************)
NoneS == [some |-> FALSE, v |-> <<>>]
SomeS(s) == [some |-> TRUE, v |-> s]
NoneI == [some |-> FALSE, v |-> 0]
SomeI(n) == [some |-> TRUE, v |-> n]

\* x or '' for an optional str
OrEmpty(o) == IF o.some THEN o.v ELSE <<>>

\* x or 0 for an optional number
OrZero(o) == IF o.some THEN o.v ELSE 0

Min(a, b) == IF a <= b THEN a ELSE b

\* s[:n]
Prefix(s, n) == SubSeq(s, 1, Min(n, Len(s)))

UpperLetters ==
    <<"A","B","C","D","E","F","G","H","I","J","K","L","M",
      "N","O","P","Q","R","S","T","U","V","W","X","Y","Z">>

LowerLetters ==
    <<"a","b","c","d","e","f","g","h","i","j","k","l","m",
      "n","o","p","q","r","s","t","u","v","w","x","y","z">>

Digits == <<"0","1","2","3","4","5","6","7","8","9">>

Range(s) == {s[i] : i \in 1..Len(s)}

Letters == Range(UpperLetters) \cup Range(LowerLetters)

\* str.lower() on one character, by the case tables of the interpreter (Unicode 14.0.0):
\* the characters past A-Z whose lower-case form is another single character
UpperForms ==
    UpperLetters \o
    <<"U+00C0", "U+00C1", "U+00C2", "U+00C3", "U+00C4", "U+00C5", "U+00C6", "U+00C7", "U+00C8",
      "U+00C9", "U+00CA", "U+00CB", "U+00CC", "U+00CD", "U+00CE", "U+00CF", "U+00D0", "U+00D1",
      "U+00D2", "U+00D3", "U+00D4", "U+00D5", "U+00D6", "U+00D8", "U+00D9", "U+00DA", "U+00DB",
      "U+00DC", "U+00DD", "U+00DE", "U+0100", "U+0102", "U+0104", "U+0106", "U+0108", "U+010A",
      "U+010C", "U+010E", "U+0110", "U+0112", "U+0114", "U+0116", "U+0118", "U+011A", "U+011C",
      "U+011E", "U+0120", "U+0122", "U+0124", "U+0126", "U+0128", "U+012A", "U+012C", "U+012E",
      "U+0132", "U+0134", "U+0136", "U+0139", "U+013B", "U+013D", "U+013F", "U+0141", "U+0143",
      "U+0145", "U+0147", "U+014A", "U+014C", "U+014E", "U+0150", "U+0152", "U+0154", "U+0156",
      "U+0158", "U+015A", "U+015C", "U+015E", "U+0160", "U+0162", "U+0164", "U+0166", "U+0168",
      "U+016A", "U+016C", "U+016E", "U+0170", "U+0172", "U+0174", "U+0176", "U+0178", "U+0179",
      "U+017B", "U+017D", "U+0181", "U+0182", "U+0184", "U+0186", "U+0187", "U+0189", "U+018A",
      "U+018B", "U+018E", "U+018F", "U+0190", "U+0191", "U+0193", "U+0194", "U+0196", "U+0197",
      "U+0198", "U+019C", "U+019D", "U+019F", "U+01A0", "U+01A2", "U+01A4", "U+01A6", "U+01A7",
      "U+01A9", "U+01AC", "U+01AE", "U+01AF", "U+01B1", "U+01B2", "U+01B3", "U+01B5", "U+01B7",
      "U+01B8", "U+01BC", "U+01C4", "U+01C5", "U+01C7", "U+01C8", "U+01CA", "U+01CB", "U+01CD",
      "U+01CF", "U+01D1", "U+01D3", "U+01D5", "U+01D7", "U+01D9", "U+01DB", "U+01DE", "U+01E0",
      "U+01E2", "U+01E4", "U+01E6", "U+01E8", "U+01EA", "U+01EC", "U+01EE", "U+01F1", "U+01F2",
      "U+01F4", "U+01F6", "U+01F7", "U+01F8", "U+01FA", "U+01FC", "U+01FE", "U+0200", "U+0202",
      "U+0204", "U+0206", "U+0208", "U+020A", "U+020C", "U+020E", "U+0210", "U+0212", "U+0214",
      "U+0216", "U+0218", "U+021A", "U+021C", "U+021E", "U+0220", "U+0222", "U+0224", "U+0226",
      "U+0228", "U+022A", "U+022C", "U+022E", "U+0230", "U+0232", "U+023A", "U+023B", "U+023D",
      "U+023E", "U+0241", "U+0243", "U+0244", "U+0245", "U+0246", "U+0248", "U+024A", "U+024C",
      "U+024E", "U+0370", "U+0372", "U+0376", "U+037F", "U+0386", "U+0388", "U+0389", "U+038A",
      "U+038C", "U+038E", "U+038F", "U+0391", "U+0392", "U+0393", "U+0394", "U+0395", "U+0396",
      "U+0397", "U+0398", "U+0399", "U+039A", "U+039B", "U+039C", "U+039D", "U+039E", "U+039F",
      "U+03A0", "U+03A1", "U+03A3", "U+03A4", "U+03A5", "U+03A6", "U+03A7", "U+03A8", "U+03A9",
      "U+03AA", "U+03AB", "U+03CF", "U+03D8", "U+03DA", "U+03DC", "U+03DE", "U+03E0", "U+03E2",
      "U+03E4", "U+03E6", "U+03E8", "U+03EA", "U+03EC", "U+03EE", "U+03F4", "U+03F7", "U+03F9",
      "U+03FA", "U+03FD", "U+03FE", "U+03FF", "U+0400", "U+0401", "U+0402", "U+0403", "U+0404",
      "U+0405", "U+0406", "U+0407", "U+0408", "U+0409", "U+040A", "U+040B", "U+040C", "U+040D",
      "U+040E", "U+040F", "U+0410", "U+0411", "U+0412", "U+0413", "U+0414", "U+0415", "U+0416",
      "U+0417", "U+0418", "U+0419", "U+041A", "U+041B", "U+041C", "U+041D", "U+041E", "U+041F",
      "U+0420", "U+0421", "U+0422", "U+0423", "U+0424", "U+0425", "U+0426", "U+0427", "U+0428",
      "U+0429", "U+042A", "U+042B", "U+042C", "U+042D", "U+042E", "U+042F", "U+0460", "U+0462",
      "U+0464", "U+0466", "U+0468", "U+046A", "U+046C", "U+046E", "U+0470", "U+0472", "U+0474",
      "U+0476", "U+0478", "U+047A", "U+047C", "U+047E", "U+0480", "U+048A", "U+048C", "U+048E",
      "U+0490", "U+0492", "U+0494", "U+0496", "U+0498", "U+049A", "U+049C", "U+049E", "U+04A0",
      "U+04A2", "U+04A4", "U+04A6", "U+04A8", "U+04AA", "U+04AC", "U+04AE", "U+04B0", "U+04B2",
      "U+04B4", "U+04B6", "U+04B8", "U+04BA", "U+04BC", "U+04BE", "U+04C0", "U+04C1", "U+04C3",
      "U+04C5", "U+04C7", "U+04C9", "U+04CB", "U+04CD", "U+04D0", "U+04D2", "U+04D4", "U+04D6",
      "U+04D8", "U+04DA", "U+04DC", "U+04DE", "U+04E0", "U+04E2", "U+04E4", "U+04E6", "U+04E8",
      "U+04EA", "U+04EC", "U+04EE", "U+04F0", "U+04F2", "U+04F4", "U+04F6", "U+04F8", "U+04FA",
      "U+04FC", "U+04FE", "U+0500", "U+0502", "U+0504", "U+0506", "U+0508", "U+050A", "U+050C",
      "U+050E", "U+0510", "U+0512", "U+0514", "U+0516", "U+0518", "U+051A", "U+051C", "U+051E",
      "U+0520", "U+0522", "U+0524", "U+0526", "U+0528", "U+052A", "U+052C", "U+052E", "U+0531",
      "U+0532", "U+0533", "U+0534", "U+0535", "U+0536", "U+0537", "U+0538", "U+0539", "U+053A",
      "U+053B", "U+053C", "U+053D", "U+053E", "U+053F", "U+0540", "U+0541", "U+0542", "U+0543",
      "U+0544", "U+0545", "U+0546", "U+0547", "U+0548", "U+0549", "U+054A", "U+054B", "U+054C",
      "U+054D", "U+054E", "U+054F", "U+0550", "U+0551", "U+0552", "U+0553", "U+0554", "U+0555",
      "U+0556", "U+10A0", "U+10A1", "U+10A2", "U+10A3", "U+10A4", "U+10A5", "U+10A6", "U+10A7",
      "U+10A8", "U+10A9", "U+10AA", "U+10AB", "U+10AC", "U+10AD", "U+10AE", "U+10AF", "U+10B0",
      "U+10B1", "U+10B2", "U+10B3", "U+10B4", "U+10B5", "U+10B6", "U+10B7", "U+10B8", "U+10B9",
      "U+10BA", "U+10BB", "U+10BC", "U+10BD", "U+10BE", "U+10BF", "U+10C0", "U+10C1", "U+10C2",
      "U+10C3", "U+10C4", "U+10C5", "U+10C7", "U+10CD", "U+13A0", "U+13A1", "U+13A2", "U+13A3",
      "U+13A4", "U+13A5", "U+13A6", "U+13A7", "U+13A8", "U+13A9", "U+13AA", "U+13AB", "U+13AC",
      "U+13AD", "U+13AE", "U+13AF", "U+13B0", "U+13B1", "U+13B2", "U+13B3", "U+13B4", "U+13B5",
      "U+13B6", "U+13B7", "U+13B8", "U+13B9", "U+13BA", "U+13BB", "U+13BC", "U+13BD", "U+13BE",
      "U+13BF", "U+13C0", "U+13C1", "U+13C2", "U+13C3", "U+13C4", "U+13C5", "U+13C6", "U+13C7",
      "U+13C8", "U+13C9", "U+13CA", "U+13CB", "U+13CC", "U+13CD", "U+13CE", "U+13CF", "U+13D0",
      "U+13D1", "U+13D2", "U+13D3", "U+13D4", "U+13D5", "U+13D6", "U+13D7", "U+13D8", "U+13D9",
      "U+13DA", "U+13DB", "U+13DC", "U+13DD", "U+13DE", "U+13DF", "U+13E0", "U+13E1", "U+13E2",
      "U+13E3", "U+13E4", "U+13E5", "U+13E6", "U+13E7", "U+13E8", "U+13E9", "U+13EA", "U+13EB",
      "U+13EC", "U+13ED", "U+13EE", "U+13EF", "U+13F0", "U+13F1", "U+13F2", "U+13F3", "U+13F4",
      "U+13F5", "U+1C90", "U+1C91", "U+1C92", "U+1C93", "U+1C94", "U+1C95", "U+1C96", "U+1C97",
      "U+1C98", "U+1C99", "U+1C9A", "U+1C9B", "U+1C9C", "U+1C9D", "U+1C9E", "U+1C9F", "U+1CA0",
      "U+1CA1", "U+1CA2", "U+1CA3", "U+1CA4", "U+1CA5", "U+1CA6", "U+1CA7", "U+1CA8", "U+1CA9",
      "U+1CAA", "U+1CAB", "U+1CAC", "U+1CAD", "U+1CAE", "U+1CAF", "U+1CB0", "U+1CB1", "U+1CB2",
      "U+1CB3", "U+1CB4", "U+1CB5", "U+1CB6", "U+1CB7", "U+1CB8", "U+1CB9", "U+1CBA", "U+1CBD",
      "U+1CBE", "U+1CBF", "U+1E00", "U+1E02", "U+1E04", "U+1E06", "U+1E08", "U+1E0A", "U+1E0C",
      "U+1E0E", "U+1E10", "U+1E12", "U+1E14", "U+1E16", "U+1E18", "U+1E1A", "U+1E1C", "U+1E1E",
      "U+1E20", "U+1E22", "U+1E24", "U+1E26", "U+1E28", "U+1E2A", "U+1E2C", "U+1E2E", "U+1E30",
      "U+1E32", "U+1E34", "U+1E36", "U+1E38", "U+1E3A", "U+1E3C", "U+1E3E", "U+1E40", "U+1E42",
      "U+1E44", "U+1E46", "U+1E48", "U+1E4A", "U+1E4C", "U+1E4E", "U+1E50", "U+1E52", "U+1E54",
      "U+1E56", "U+1E58", "U+1E5A", "U+1E5C", "U+1E5E", "U+1E60", "U+1E62", "U+1E64", "U+1E66",
      "U+1E68", "U+1E6A", "U+1E6C", "U+1E6E", "U+1E70", "U+1E72", "U+1E74", "U+1E76", "U+1E78",
      "U+1E7A", "U+1E7C", "U+1E7E", "U+1E80", "U+1E82", "U+1E84", "U+1E86", "U+1E88", "U+1E8A",
      "U+1E8C", "U+1E8E", "U+1E90", "U+1E92", "U+1E94", "U+1E9E", "U+1EA0", "U+1EA2", "U+1EA4",
      "U+1EA6", "U+1EA8", "U+1EAA", "U+1EAC", "U+1EAE", "U+1EB0", "U+1EB2", "U+1EB4", "U+1EB6",
      "U+1EB8", "U+1EBA", "U+1EBC", "U+1EBE", "U+1EC0", "U+1EC2", "U+1EC4", "U+1EC6", "U+1EC8",
      "U+1ECA", "U+1ECC", "U+1ECE", "U+1ED0", "U+1ED2", "U+1ED4", "U+1ED6", "U+1ED8", "U+1EDA",
      "U+1EDC", "U+1EDE", "U+1EE0", "U+1EE2", "U+1EE4", "U+1EE6", "U+1EE8", "U+1EEA", "U+1EEC",
      "U+1EEE", "U+1EF0", "U+1EF2", "U+1EF4", "U+1EF6", "U+1EF8", "U+1EFA", "U+1EFC", "U+1EFE",
      "U+1F08", "U+1F09", "U+1F0A", "U+1F0B", "U+1F0C", "U+1F0D", "U+1F0E", "U+1F0F", "U+1F18",
      "U+1F19", "U+1F1A", "U+1F1B", "U+1F1C", "U+1F1D", "U+1F28", "U+1F29", "U+1F2A", "U+1F2B",
      "U+1F2C", "U+1F2D", "U+1F2E", "U+1F2F", "U+1F38", "U+1F39", "U+1F3A", "U+1F3B", "U+1F3C",
      "U+1F3D", "U+1F3E", "U+1F3F", "U+1F48", "U+1F49", "U+1F4A", "U+1F4B", "U+1F4C", "U+1F4D",
      "U+1F59", "U+1F5B", "U+1F5D", "U+1F5F", "U+1F68", "U+1F69", "U+1F6A", "U+1F6B", "U+1F6C",
      "U+1F6D", "U+1F6E", "U+1F6F", "U+1F88", "U+1F89", "U+1F8A", "U+1F8B", "U+1F8C", "U+1F8D",
      "U+1F8E", "U+1F8F", "U+1F98", "U+1F99", "U+1F9A", "U+1F9B", "U+1F9C", "U+1F9D", "U+1F9E",
      "U+1F9F", "U+1FA8", "U+1FA9", "U+1FAA", "U+1FAB", "U+1FAC", "U+1FAD", "U+1FAE", "U+1FAF",
      "U+1FB8", "U+1FB9", "U+1FBA", "U+1FBB", "U+1FBC", "U+1FC8", "U+1FC9", "U+1FCA", "U+1FCB",
      "U+1FCC", "U+1FD8", "U+1FD9", "U+1FDA", "U+1FDB", "U+1FE8", "U+1FE9", "U+1FEA", "U+1FEB",
      "U+1FEC", "U+1FF8", "U+1FF9", "U+1FFA", "U+1FFB", "U+1FFC", "U+2126", "U+212A", "U+212B",
      "U+2132", "U+2160", "U+2161", "U+2162", "U+2163", "U+2164", "U+2165", "U+2166", "U+2167",
      "U+2168", "U+2169", "U+216A", "U+216B", "U+216C", "U+216D", "U+216E", "U+216F", "U+2183",
      "U+24B6", "U+24B7", "U+24B8", "U+24B9", "U+24BA", "U+24BB", "U+24BC", "U+24BD", "U+24BE",
      "U+24BF", "U+24C0", "U+24C1", "U+24C2", "U+24C3", "U+24C4", "U+24C5", "U+24C6", "U+24C7",
      "U+24C8", "U+24C9", "U+24CA", "U+24CB", "U+24CC", "U+24CD", "U+24CE", "U+24CF", "U+2C00",
      "U+2C01", "U+2C02", "U+2C03", "U+2C04", "U+2C05", "U+2C06", "U+2C07", "U+2C08", "U+2C09",
      "U+2C0A", "U+2C0B", "U+2C0C", "U+2C0D", "U+2C0E", "U+2C0F", "U+2C10", "U+2C11", "U+2C12",
      "U+2C13", "U+2C14", "U+2C15", "U+2C16", "U+2C17", "U+2C18", "U+2C19", "U+2C1A", "U+2C1B",
      "U+2C1C", "U+2C1D", "U+2C1E", "U+2C1F", "U+2C20", "U+2C21", "U+2C22", "U+2C23", "U+2C24",
      "U+2C25", "U+2C26", "U+2C27", "U+2C28", "U+2C29", "U+2C2A", "U+2C2B", "U+2C2C", "U+2C2D",
      "U+2C2E", "U+2C2F", "U+2C60", "U+2C62", "U+2C63", "U+2C64", "U+2C67", "U+2C69", "U+2C6B",
      "U+2C6D", "U+2C6E", "U+2C6F", "U+2C70", "U+2C72", "U+2C75", "U+2C7E", "U+2C7F", "U+2C80",
      "U+2C82", "U+2C84", "U+2C86", "U+2C88", "U+2C8A", "U+2C8C", "U+2C8E", "U+2C90", "U+2C92",
      "U+2C94", "U+2C96", "U+2C98", "U+2C9A", "U+2C9C", "U+2C9E", "U+2CA0", "U+2CA2", "U+2CA4",
      "U+2CA6", "U+2CA8", "U+2CAA", "U+2CAC", "U+2CAE", "U+2CB0", "U+2CB2", "U+2CB4", "U+2CB6",
      "U+2CB8", "U+2CBA", "U+2CBC", "U+2CBE", "U+2CC0", "U+2CC2", "U+2CC4", "U+2CC6", "U+2CC8",
      "U+2CCA", "U+2CCC", "U+2CCE", "U+2CD0", "U+2CD2", "U+2CD4", "U+2CD6", "U+2CD8", "U+2CDA",
      "U+2CDC", "U+2CDE", "U+2CE0", "U+2CE2", "U+2CEB", "U+2CED", "U+2CF2", "U+A640", "U+A642",
      "U+A644", "U+A646", "U+A648", "U+A64A", "U+A64C", "U+A64E", "U+A650", "U+A652", "U+A654",
      "U+A656", "U+A658", "U+A65A", "U+A65C", "U+A65E", "U+A660", "U+A662", "U+A664", "U+A666",
      "U+A668", "U+A66A", "U+A66C", "U+A680", "U+A682", "U+A684", "U+A686", "U+A688", "U+A68A",
      "U+A68C", "U+A68E", "U+A690", "U+A692", "U+A694", "U+A696", "U+A698", "U+A69A", "U+A722",
      "U+A724", "U+A726", "U+A728", "U+A72A", "U+A72C", "U+A72E", "U+A732", "U+A734", "U+A736",
      "U+A738", "U+A73A", "U+A73C", "U+A73E", "U+A740", "U+A742", "U+A744", "U+A746", "U+A748",
      "U+A74A", "U+A74C", "U+A74E", "U+A750", "U+A752", "U+A754", "U+A756", "U+A758", "U+A75A",
      "U+A75C", "U+A75E", "U+A760", "U+A762", "U+A764", "U+A766", "U+A768", "U+A76A", "U+A76C",
      "U+A76E", "U+A779", "U+A77B", "U+A77D", "U+A77E", "U+A780", "U+A782", "U+A784", "U+A786",
      "U+A78B", "U+A78D", "U+A790", "U+A792", "U+A796", "U+A798", "U+A79A", "U+A79C", "U+A79E",
      "U+A7A0", "U+A7A2", "U+A7A4", "U+A7A6", "U+A7A8", "U+A7AA", "U+A7AB", "U+A7AC", "U+A7AD",
      "U+A7AE", "U+A7B0", "U+A7B1", "U+A7B2", "U+A7B3", "U+A7B4", "U+A7B6", "U+A7B8", "U+A7BA",
      "U+A7BC", "U+A7BE", "U+A7C0", "U+A7C2", "U+A7C4", "U+A7C5", "U+A7C6", "U+A7C7", "U+A7C9",
      "U+A7D0", "U+A7D6", "U+A7D8", "U+A7F5", "U+FF21", "U+FF22", "U+FF23", "U+FF24", "U+FF25",
      "U+FF26", "U+FF27", "U+FF28", "U+FF29", "U+FF2A", "U+FF2B", "U+FF2C", "U+FF2D", "U+FF2E",
      "U+FF2F", "U+FF30", "U+FF31", "U+FF32", "U+FF33", "U+FF34", "U+FF35", "U+FF36", "U+FF37",
      "U+FF38", "U+FF39", "U+FF3A", "U+10400", "U+10401", "U+10402", "U+10403", "U+10404",
      "U+10405", "U+10406", "U+10407", "U+10408", "U+10409", "U+1040A", "U+1040B", "U+1040C",
      "U+1040D", "U+1040E", "U+1040F", "U+10410", "U+10411", "U+10412", "U+10413", "U+10414",
      "U+10415", "U+10416", "U+10417", "U+10418", "U+10419", "U+1041A", "U+1041B", "U+1041C",
      "U+1041D", "U+1041E", "U+1041F", "U+10420", "U+10421", "U+10422", "U+10423", "U+10424",
      "U+10425", "U+10426", "U+10427", "U+104B0", "U+104B1", "U+104B2", "U+104B3", "U+104B4",
      "U+104B5", "U+104B6", "U+104B7", "U+104B8", "U+104B9", "U+104BA", "U+104BB", "U+104BC",
      "U+104BD", "U+104BE", "U+104BF", "U+104C0", "U+104C1", "U+104C2", "U+104C3", "U+104C4",
      "U+104C5", "U+104C6", "U+104C7", "U+104C8", "U+104C9", "U+104CA", "U+104CB", "U+104CC",
      "U+104CD", "U+104CE", "U+104CF", "U+104D0", "U+104D1", "U+104D2", "U+104D3", "U+10570",
      "U+10571", "U+10572", "U+10573", "U+10574", "U+10575", "U+10576", "U+10577", "U+10578",
      "U+10579", "U+1057A", "U+1057C", "U+1057D", "U+1057E", "U+1057F", "U+10580", "U+10581",
      "U+10582", "U+10583", "U+10584", "U+10585", "U+10586", "U+10587", "U+10588", "U+10589",
      "U+1058A", "U+1058C", "U+1058D", "U+1058E", "U+1058F", "U+10590", "U+10591", "U+10592",
      "U+10594", "U+10595", "U+10C80", "U+10C81", "U+10C82", "U+10C83", "U+10C84", "U+10C85",
      "U+10C86", "U+10C87", "U+10C88", "U+10C89", "U+10C8A", "U+10C8B", "U+10C8C", "U+10C8D",
      "U+10C8E", "U+10C8F", "U+10C90", "U+10C91", "U+10C92", "U+10C93", "U+10C94", "U+10C95",
      "U+10C96", "U+10C97", "U+10C98", "U+10C99", "U+10C9A", "U+10C9B", "U+10C9C", "U+10C9D",
      "U+10C9E", "U+10C9F", "U+10CA0", "U+10CA1", "U+10CA2", "U+10CA3", "U+10CA4", "U+10CA5",
      "U+10CA6", "U+10CA7", "U+10CA8", "U+10CA9", "U+10CAA", "U+10CAB", "U+10CAC", "U+10CAD",
      "U+10CAE", "U+10CAF", "U+10CB0", "U+10CB1", "U+10CB2", "U+118A0", "U+118A1", "U+118A2",
      "U+118A3", "U+118A4", "U+118A5", "U+118A6", "U+118A7", "U+118A8", "U+118A9", "U+118AA",
      "U+118AB", "U+118AC", "U+118AD", "U+118AE", "U+118AF", "U+118B0", "U+118B1", "U+118B2",
      "U+118B3", "U+118B4", "U+118B5", "U+118B6", "U+118B7", "U+118B8", "U+118B9", "U+118BA",
      "U+118BB", "U+118BC", "U+118BD", "U+118BE", "U+118BF", "U+16E40", "U+16E41", "U+16E42",
      "U+16E43", "U+16E44", "U+16E45", "U+16E46", "U+16E47", "U+16E48", "U+16E49", "U+16E4A",
      "U+16E4B", "U+16E4C", "U+16E4D", "U+16E4E", "U+16E4F", "U+16E50", "U+16E51", "U+16E52",
      "U+16E53", "U+16E54", "U+16E55", "U+16E56", "U+16E57", "U+16E58", "U+16E59", "U+16E5A",
      "U+16E5B", "U+16E5C", "U+16E5D", "U+16E5E", "U+16E5F", "U+1E900", "U+1E901", "U+1E902",
      "U+1E903", "U+1E904", "U+1E905", "U+1E906", "U+1E907", "U+1E908", "U+1E909", "U+1E90A",
      "U+1E90B", "U+1E90C", "U+1E90D", "U+1E90E", "U+1E90F", "U+1E910", "U+1E911", "U+1E912",
      "U+1E913", "U+1E914", "U+1E915", "U+1E916", "U+1E917", "U+1E918", "U+1E919", "U+1E91A",
      "U+1E91B", "U+1E91C", "U+1E91D", "U+1E91E", "U+1E91F", "U+1E920", "U+1E921">>

LowerForms ==
    LowerLetters \o
    <<"U+00E0", "U+00E1", "U+00E2", "U+00E3", "U+00E4", "U+00E5", "U+00E6", "U+00E7", "U+00E8",
      "U+00E9", "U+00EA", "U+00EB", "U+00EC", "U+00ED", "U+00EE", "U+00EF", "U+00F0", "U+00F1",
      "U+00F2", "U+00F3", "U+00F4", "U+00F5", "U+00F6", "U+00F8", "U+00F9", "U+00FA", "U+00FB",
      "U+00FC", "U+00FD", "U+00FE", "U+0101", "U+0103", "U+0105", "U+0107", "U+0109", "U+010B",
      "U+010D", "U+010F", "U+0111", "U+0113", "U+0115", "U+0117", "U+0119", "U+011B", "U+011D",
      "U+011F", "U+0121", "U+0123", "U+0125", "U+0127", "U+0129", "U+012B", "U+012D", "U+012F",
      "U+0133", "U+0135", "U+0137", "U+013A", "U+013C", "U+013E", "U+0140", "U+0142", "U+0144",
      "U+0146", "U+0148", "U+014B", "U+014D", "U+014F", "U+0151", "U+0153", "U+0155", "U+0157",
      "U+0159", "U+015B", "U+015D", "U+015F", "U+0161", "U+0163", "U+0165", "U+0167", "U+0169",
      "U+016B", "U+016D", "U+016F", "U+0171", "U+0173", "U+0175", "U+0177", "U+00FF", "U+017A",
      "U+017C", "U+017E", "U+0253", "U+0183", "U+0185", "U+0254", "U+0188", "U+0256", "U+0257",
      "U+018C", "U+01DD", "U+0259", "U+025B", "U+0192", "U+0260", "U+0263", "U+0269", "U+0268",
      "U+0199", "U+026F", "U+0272", "U+0275", "U+01A1", "U+01A3", "U+01A5", "U+0280", "U+01A8",
      "U+0283", "U+01AD", "U+0288", "U+01B0", "U+028A", "U+028B", "U+01B4", "U+01B6", "U+0292",
      "U+01B9", "U+01BD", "U+01C6", "U+01C6", "U+01C9", "U+01C9", "U+01CC", "U+01CC", "U+01CE",
      "U+01D0", "U+01D2", "U+01D4", "U+01D6", "U+01D8", "U+01DA", "U+01DC", "U+01DF", "U+01E1",
      "U+01E3", "U+01E5", "U+01E7", "U+01E9", "U+01EB", "U+01ED", "U+01EF", "U+01F3", "U+01F3",
      "U+01F5", "U+0195", "U+01BF", "U+01F9", "U+01FB", "U+01FD", "U+01FF", "U+0201", "U+0203",
      "U+0205", "U+0207", "U+0209", "U+020B", "U+020D", "U+020F", "U+0211", "U+0213", "U+0215",
      "U+0217", "U+0219", "U+021B", "U+021D", "U+021F", "U+019E", "U+0223", "U+0225", "U+0227",
      "U+0229", "U+022B", "U+022D", "U+022F", "U+0231", "U+0233", "U+2C65", "U+023C", "U+019A",
      "U+2C66", "U+0242", "U+0180", "U+0289", "U+028C", "U+0247", "U+0249", "U+024B", "U+024D",
      "U+024F", "U+0371", "U+0373", "U+0377", "U+03F3", "U+03AC", "U+03AD", "U+03AE", "U+03AF",
      "U+03CC", "U+03CD", "U+03CE", "U+03B1", "U+03B2", "U+03B3", "U+03B4", "U+03B5", "U+03B6",
      "U+03B7", "U+03B8", "U+03B9", "U+03BA", "U+03BB", "U+03BC", "U+03BD", "U+03BE", "U+03BF",
      "U+03C0", "U+03C1", "U+03C3", "U+03C4", "U+03C5", "U+03C6", "U+03C7", "U+03C8", "U+03C9",
      "U+03CA", "U+03CB", "U+03D7", "U+03D9", "U+03DB", "U+03DD", "U+03DF", "U+03E1", "U+03E3",
      "U+03E5", "U+03E7", "U+03E9", "U+03EB", "U+03ED", "U+03EF", "U+03B8", "U+03F8", "U+03F2",
      "U+03FB", "U+037B", "U+037C", "U+037D", "U+0450", "U+0451", "U+0452", "U+0453", "U+0454",
      "U+0455", "U+0456", "U+0457", "U+0458", "U+0459", "U+045A", "U+045B", "U+045C", "U+045D",
      "U+045E", "U+045F", "U+0430", "U+0431", "U+0432", "U+0433", "U+0434", "U+0435", "U+0436",
      "U+0437", "U+0438", "U+0439", "U+043A", "U+043B", "U+043C", "U+043D", "U+043E", "U+043F",
      "U+0440", "U+0441", "U+0442", "U+0443", "U+0444", "U+0445", "U+0446", "U+0447", "U+0448",
      "U+0449", "U+044A", "U+044B", "U+044C", "U+044D", "U+044E", "U+044F", "U+0461", "U+0463",
      "U+0465", "U+0467", "U+0469", "U+046B", "U+046D", "U+046F", "U+0471", "U+0473", "U+0475",
      "U+0477", "U+0479", "U+047B", "U+047D", "U+047F", "U+0481", "U+048B", "U+048D", "U+048F",
      "U+0491", "U+0493", "U+0495", "U+0497", "U+0499", "U+049B", "U+049D", "U+049F", "U+04A1",
      "U+04A3", "U+04A5", "U+04A7", "U+04A9", "U+04AB", "U+04AD", "U+04AF", "U+04B1", "U+04B3",
      "U+04B5", "U+04B7", "U+04B9", "U+04BB", "U+04BD", "U+04BF", "U+04CF", "U+04C2", "U+04C4",
      "U+04C6", "U+04C8", "U+04CA", "U+04CC", "U+04CE", "U+04D1", "U+04D3", "U+04D5", "U+04D7",
      "U+04D9", "U+04DB", "U+04DD", "U+04DF", "U+04E1", "U+04E3", "U+04E5", "U+04E7", "U+04E9",
      "U+04EB", "U+04ED", "U+04EF", "U+04F1", "U+04F3", "U+04F5", "U+04F7", "U+04F9", "U+04FB",
      "U+04FD", "U+04FF", "U+0501", "U+0503", "U+0505", "U+0507", "U+0509", "U+050B", "U+050D",
      "U+050F", "U+0511", "U+0513", "U+0515", "U+0517", "U+0519", "U+051B", "U+051D", "U+051F",
      "U+0521", "U+0523", "U+0525", "U+0527", "U+0529", "U+052B", "U+052D", "U+052F", "U+0561",
      "U+0562", "U+0563", "U+0564", "U+0565", "U+0566", "U+0567", "U+0568", "U+0569", "U+056A",
      "U+056B", "U+056C", "U+056D", "U+056E", "U+056F", "U+0570", "U+0571", "U+0572", "U+0573",
      "U+0574", "U+0575", "U+0576", "U+0577", "U+0578", "U+0579", "U+057A", "U+057B", "U+057C",
      "U+057D", "U+057E", "U+057F", "U+0580", "U+0581", "U+0582", "U+0583", "U+0584", "U+0585",
      "U+0586", "U+2D00", "U+2D01", "U+2D02", "U+2D03", "U+2D04", "U+2D05", "U+2D06", "U+2D07",
      "U+2D08", "U+2D09", "U+2D0A", "U+2D0B", "U+2D0C", "U+2D0D", "U+2D0E", "U+2D0F", "U+2D10",
      "U+2D11", "U+2D12", "U+2D13", "U+2D14", "U+2D15", "U+2D16", "U+2D17", "U+2D18", "U+2D19",
      "U+2D1A", "U+2D1B", "U+2D1C", "U+2D1D", "U+2D1E", "U+2D1F", "U+2D20", "U+2D21", "U+2D22",
      "U+2D23", "U+2D24", "U+2D25", "U+2D27", "U+2D2D", "U+AB70", "U+AB71", "U+AB72", "U+AB73",
      "U+AB74", "U+AB75", "U+AB76", "U+AB77", "U+AB78", "U+AB79", "U+AB7A", "U+AB7B", "U+AB7C",
      "U+AB7D", "U+AB7E", "U+AB7F", "U+AB80", "U+AB81", "U+AB82", "U+AB83", "U+AB84", "U+AB85",
      "U+AB86", "U+AB87", "U+AB88", "U+AB89", "U+AB8A", "U+AB8B", "U+AB8C", "U+AB8D", "U+AB8E",
      "U+AB8F", "U+AB90", "U+AB91", "U+AB92", "U+AB93", "U+AB94", "U+AB95", "U+AB96", "U+AB97",
      "U+AB98", "U+AB99", "U+AB9A", "U+AB9B", "U+AB9C", "U+AB9D", "U+AB9E", "U+AB9F", "U+ABA0",
      "U+ABA1", "U+ABA2", "U+ABA3", "U+ABA4", "U+ABA5", "U+ABA6", "U+ABA7", "U+ABA8", "U+ABA9",
      "U+ABAA", "U+ABAB", "U+ABAC", "U+ABAD", "U+ABAE", "U+ABAF", "U+ABB0", "U+ABB1", "U+ABB2",
      "U+ABB3", "U+ABB4", "U+ABB5", "U+ABB6", "U+ABB7", "U+ABB8", "U+ABB9", "U+ABBA", "U+ABBB",
      "U+ABBC", "U+ABBD", "U+ABBE", "U+ABBF", "U+13F8", "U+13F9", "U+13FA", "U+13FB", "U+13FC",
      "U+13FD", "U+10D0", "U+10D1", "U+10D2", "U+10D3", "U+10D4", "U+10D5", "U+10D6", "U+10D7",
      "U+10D8", "U+10D9", "U+10DA", "U+10DB", "U+10DC", "U+10DD", "U+10DE", "U+10DF", "U+10E0",
      "U+10E1", "U+10E2", "U+10E3", "U+10E4", "U+10E5", "U+10E6", "U+10E7", "U+10E8", "U+10E9",
      "U+10EA", "U+10EB", "U+10EC", "U+10ED", "U+10EE", "U+10EF", "U+10F0", "U+10F1", "U+10F2",
      "U+10F3", "U+10F4", "U+10F5", "U+10F6", "U+10F7", "U+10F8", "U+10F9", "U+10FA", "U+10FD",
      "U+10FE", "U+10FF", "U+1E01", "U+1E03", "U+1E05", "U+1E07", "U+1E09", "U+1E0B", "U+1E0D",
      "U+1E0F", "U+1E11", "U+1E13", "U+1E15", "U+1E17", "U+1E19", "U+1E1B", "U+1E1D", "U+1E1F",
      "U+1E21", "U+1E23", "U+1E25", "U+1E27", "U+1E29", "U+1E2B", "U+1E2D", "U+1E2F", "U+1E31",
      "U+1E33", "U+1E35", "U+1E37", "U+1E39", "U+1E3B", "U+1E3D", "U+1E3F", "U+1E41", "U+1E43",
      "U+1E45", "U+1E47", "U+1E49", "U+1E4B", "U+1E4D", "U+1E4F", "U+1E51", "U+1E53", "U+1E55",
      "U+1E57", "U+1E59", "U+1E5B", "U+1E5D", "U+1E5F", "U+1E61", "U+1E63", "U+1E65", "U+1E67",
      "U+1E69", "U+1E6B", "U+1E6D", "U+1E6F", "U+1E71", "U+1E73", "U+1E75", "U+1E77", "U+1E79",
      "U+1E7B", "U+1E7D", "U+1E7F", "U+1E81", "U+1E83", "U+1E85", "U+1E87", "U+1E89", "U+1E8B",
      "U+1E8D", "U+1E8F", "U+1E91", "U+1E93", "U+1E95", "U+00DF", "U+1EA1", "U+1EA3", "U+1EA5",
      "U+1EA7", "U+1EA9", "U+1EAB", "U+1EAD", "U+1EAF", "U+1EB1", "U+1EB3", "U+1EB5", "U+1EB7",
      "U+1EB9", "U+1EBB", "U+1EBD", "U+1EBF", "U+1EC1", "U+1EC3", "U+1EC5", "U+1EC7", "U+1EC9",
      "U+1ECB", "U+1ECD", "U+1ECF", "U+1ED1", "U+1ED3", "U+1ED5", "U+1ED7", "U+1ED9", "U+1EDB",
      "U+1EDD", "U+1EDF", "U+1EE1", "U+1EE3", "U+1EE5", "U+1EE7", "U+1EE9", "U+1EEB", "U+1EED",
      "U+1EEF", "U+1EF1", "U+1EF3", "U+1EF5", "U+1EF7", "U+1EF9", "U+1EFB", "U+1EFD", "U+1EFF",
      "U+1F00", "U+1F01", "U+1F02", "U+1F03", "U+1F04", "U+1F05", "U+1F06", "U+1F07", "U+1F10",
      "U+1F11", "U+1F12", "U+1F13", "U+1F14", "U+1F15", "U+1F20", "U+1F21", "U+1F22", "U+1F23",
      "U+1F24", "U+1F25", "U+1F26", "U+1F27", "U+1F30", "U+1F31", "U+1F32", "U+1F33", "U+1F34",
      "U+1F35", "U+1F36", "U+1F37", "U+1F40", "U+1F41", "U+1F42", "U+1F43", "U+1F44", "U+1F45",
      "U+1F51", "U+1F53", "U+1F55", "U+1F57", "U+1F60", "U+1F61", "U+1F62", "U+1F63", "U+1F64",
      "U+1F65", "U+1F66", "U+1F67", "U+1F80", "U+1F81", "U+1F82", "U+1F83", "U+1F84", "U+1F85",
      "U+1F86", "U+1F87", "U+1F90", "U+1F91", "U+1F92", "U+1F93", "U+1F94", "U+1F95", "U+1F96",
      "U+1F97", "U+1FA0", "U+1FA1", "U+1FA2", "U+1FA3", "U+1FA4", "U+1FA5", "U+1FA6", "U+1FA7",
      "U+1FB0", "U+1FB1", "U+1F70", "U+1F71", "U+1FB3", "U+1F72", "U+1F73", "U+1F74", "U+1F75",
      "U+1FC3", "U+1FD0", "U+1FD1", "U+1F76", "U+1F77", "U+1FE0", "U+1FE1", "U+1F7A", "U+1F7B",
      "U+1FE5", "U+1F78", "U+1F79", "U+1F7C", "U+1F7D", "U+1FF3", "U+03C9", "k", "U+00E5",
      "U+214E", "U+2170", "U+2171", "U+2172", "U+2173", "U+2174", "U+2175", "U+2176", "U+2177",
      "U+2178", "U+2179", "U+217A", "U+217B", "U+217C", "U+217D", "U+217E", "U+217F", "U+2184",
      "U+24D0", "U+24D1", "U+24D2", "U+24D3", "U+24D4", "U+24D5", "U+24D6", "U+24D7", "U+24D8",
      "U+24D9", "U+24DA", "U+24DB", "U+24DC", "U+24DD", "U+24DE", "U+24DF", "U+24E0", "U+24E1",
      "U+24E2", "U+24E3", "U+24E4", "U+24E5", "U+24E6", "U+24E7", "U+24E8", "U+24E9", "U+2C30",
      "U+2C31", "U+2C32", "U+2C33", "U+2C34", "U+2C35", "U+2C36", "U+2C37", "U+2C38", "U+2C39",
      "U+2C3A", "U+2C3B", "U+2C3C", "U+2C3D", "U+2C3E", "U+2C3F", "U+2C40", "U+2C41", "U+2C42",
      "U+2C43", "U+2C44", "U+2C45", "U+2C46", "U+2C47", "U+2C48", "U+2C49", "U+2C4A", "U+2C4B",
      "U+2C4C", "U+2C4D", "U+2C4E", "U+2C4F", "U+2C50", "U+2C51", "U+2C52", "U+2C53", "U+2C54",
      "U+2C55", "U+2C56", "U+2C57", "U+2C58", "U+2C59", "U+2C5A", "U+2C5B", "U+2C5C", "U+2C5D",
      "U+2C5E", "U+2C5F", "U+2C61", "U+026B", "U+1D7D", "U+027D", "U+2C68", "U+2C6A", "U+2C6C",
      "U+0251", "U+0271", "U+0250", "U+0252", "U+2C73", "U+2C76", "U+023F", "U+0240", "U+2C81",
      "U+2C83", "U+2C85", "U+2C87", "U+2C89", "U+2C8B", "U+2C8D", "U+2C8F", "U+2C91", "U+2C93",
      "U+2C95", "U+2C97", "U+2C99", "U+2C9B", "U+2C9D", "U+2C9F", "U+2CA1", "U+2CA3", "U+2CA5",
      "U+2CA7", "U+2CA9", "U+2CAB", "U+2CAD", "U+2CAF", "U+2CB1", "U+2CB3", "U+2CB5", "U+2CB7",
      "U+2CB9", "U+2CBB", "U+2CBD", "U+2CBF", "U+2CC1", "U+2CC3", "U+2CC5", "U+2CC7", "U+2CC9",
      "U+2CCB", "U+2CCD", "U+2CCF", "U+2CD1", "U+2CD3", "U+2CD5", "U+2CD7", "U+2CD9", "U+2CDB",
      "U+2CDD", "U+2CDF", "U+2CE1", "U+2CE3", "U+2CEC", "U+2CEE", "U+2CF3", "U+A641", "U+A643",
      "U+A645", "U+A647", "U+A649", "U+A64B", "U+A64D", "U+A64F", "U+A651", "U+A653", "U+A655",
      "U+A657", "U+A659", "U+A65B", "U+A65D", "U+A65F", "U+A661", "U+A663", "U+A665", "U+A667",
      "U+A669", "U+A66B", "U+A66D", "U+A681", "U+A683", "U+A685", "U+A687", "U+A689", "U+A68B",
      "U+A68D", "U+A68F", "U+A691", "U+A693", "U+A695", "U+A697", "U+A699", "U+A69B", "U+A723",
      "U+A725", "U+A727", "U+A729", "U+A72B", "U+A72D", "U+A72F", "U+A733", "U+A735", "U+A737",
      "U+A739", "U+A73B", "U+A73D", "U+A73F", "U+A741", "U+A743", "U+A745", "U+A747", "U+A749",
      "U+A74B", "U+A74D", "U+A74F", "U+A751", "U+A753", "U+A755", "U+A757", "U+A759", "U+A75B",
      "U+A75D", "U+A75F", "U+A761", "U+A763", "U+A765", "U+A767", "U+A769", "U+A76B", "U+A76D",
      "U+A76F", "U+A77A", "U+A77C", "U+1D79", "U+A77F", "U+A781", "U+A783", "U+A785", "U+A787",
      "U+A78C", "U+0265", "U+A791", "U+A793", "U+A797", "U+A799", "U+A79B", "U+A79D", "U+A79F",
      "U+A7A1", "U+A7A3", "U+A7A5", "U+A7A7", "U+A7A9", "U+0266", "U+025C", "U+0261", "U+026C",
      "U+026A", "U+029E", "U+0287", "U+029D", "U+AB53", "U+A7B5", "U+A7B7", "U+A7B9", "U+A7BB",
      "U+A7BD", "U+A7BF", "U+A7C1", "U+A7C3", "U+A794", "U+0282", "U+1D8E", "U+A7C8", "U+A7CA",
      "U+A7D1", "U+A7D7", "U+A7D9", "U+A7F6", "U+FF41", "U+FF42", "U+FF43", "U+FF44", "U+FF45",
      "U+FF46", "U+FF47", "U+FF48", "U+FF49", "U+FF4A", "U+FF4B", "U+FF4C", "U+FF4D", "U+FF4E",
      "U+FF4F", "U+FF50", "U+FF51", "U+FF52", "U+FF53", "U+FF54", "U+FF55", "U+FF56", "U+FF57",
      "U+FF58", "U+FF59", "U+FF5A", "U+10428", "U+10429", "U+1042A", "U+1042B", "U+1042C",
      "U+1042D", "U+1042E", "U+1042F", "U+10430", "U+10431", "U+10432", "U+10433", "U+10434",
      "U+10435", "U+10436", "U+10437", "U+10438", "U+10439", "U+1043A", "U+1043B", "U+1043C",
      "U+1043D", "U+1043E", "U+1043F", "U+10440", "U+10441", "U+10442", "U+10443", "U+10444",
      "U+10445", "U+10446", "U+10447", "U+10448", "U+10449", "U+1044A", "U+1044B", "U+1044C",
      "U+1044D", "U+1044E", "U+1044F", "U+104D8", "U+104D9", "U+104DA", "U+104DB", "U+104DC",
      "U+104DD", "U+104DE", "U+104DF", "U+104E0", "U+104E1", "U+104E2", "U+104E3", "U+104E4",
      "U+104E5", "U+104E6", "U+104E7", "U+104E8", "U+104E9", "U+104EA", "U+104EB", "U+104EC",
      "U+104ED", "U+104EE", "U+104EF", "U+104F0", "U+104F1", "U+104F2", "U+104F3", "U+104F4",
      "U+104F5", "U+104F6", "U+104F7", "U+104F8", "U+104F9", "U+104FA", "U+104FB", "U+10597",
      "U+10598", "U+10599", "U+1059A", "U+1059B", "U+1059C", "U+1059D", "U+1059E", "U+1059F",
      "U+105A0", "U+105A1", "U+105A3", "U+105A4", "U+105A5", "U+105A6", "U+105A7", "U+105A8",
      "U+105A9", "U+105AA", "U+105AB", "U+105AC", "U+105AD", "U+105AE", "U+105AF", "U+105B0",
      "U+105B1", "U+105B3", "U+105B4", "U+105B5", "U+105B6", "U+105B7", "U+105B8", "U+105B9",
      "U+105BB", "U+105BC", "U+10CC0", "U+10CC1", "U+10CC2", "U+10CC3", "U+10CC4", "U+10CC5",
      "U+10CC6", "U+10CC7", "U+10CC8", "U+10CC9", "U+10CCA", "U+10CCB", "U+10CCC", "U+10CCD",
      "U+10CCE", "U+10CCF", "U+10CD0", "U+10CD1", "U+10CD2", "U+10CD3", "U+10CD4", "U+10CD5",
      "U+10CD6", "U+10CD7", "U+10CD8", "U+10CD9", "U+10CDA", "U+10CDB", "U+10CDC", "U+10CDD",
      "U+10CDE", "U+10CDF", "U+10CE0", "U+10CE1", "U+10CE2", "U+10CE3", "U+10CE4", "U+10CE5",
      "U+10CE6", "U+10CE7", "U+10CE8", "U+10CE9", "U+10CEA", "U+10CEB", "U+10CEC", "U+10CED",
      "U+10CEE", "U+10CEF", "U+10CF0", "U+10CF1", "U+10CF2", "U+118C0", "U+118C1", "U+118C2",
      "U+118C3", "U+118C4", "U+118C5", "U+118C6", "U+118C7", "U+118C8", "U+118C9", "U+118CA",
      "U+118CB", "U+118CC", "U+118CD", "U+118CE", "U+118CF", "U+118D0", "U+118D1", "U+118D2",
      "U+118D3", "U+118D4", "U+118D5", "U+118D6", "U+118D7", "U+118D8", "U+118D9", "U+118DA",
      "U+118DB", "U+118DC", "U+118DD", "U+118DE", "U+118DF", "U+16E60", "U+16E61", "U+16E62",
      "U+16E63", "U+16E64", "U+16E65", "U+16E66", "U+16E67", "U+16E68", "U+16E69", "U+16E6A",
      "U+16E6B", "U+16E6C", "U+16E6D", "U+16E6E", "U+16E6F", "U+16E70", "U+16E71", "U+16E72",
      "U+16E73", "U+16E74", "U+16E75", "U+16E76", "U+16E77", "U+16E78", "U+16E79", "U+16E7A",
      "U+16E7B", "U+16E7C", "U+16E7D", "U+16E7E", "U+16E7F", "U+1E922", "U+1E923", "U+1E924",
      "U+1E925", "U+1E926", "U+1E927", "U+1E928", "U+1E929", "U+1E92A", "U+1E92B", "U+1E92C",
      "U+1E92D", "U+1E92E", "U+1E92F", "U+1E930", "U+1E931", "U+1E932", "U+1E933", "U+1E934",
      "U+1E935", "U+1E936", "U+1E937", "U+1E938", "U+1E939", "U+1E93A", "U+1E93B", "U+1E93C",
      "U+1E93D", "U+1E93E", "U+1E93F", "U+1E940", "U+1E941", "U+1E942", "U+1E943">>

\* the lower-case form of each of them
LowerOf ==
    [c \in Range(UpperForms) |->
        LowerForms[CHOOSE i \in 1..Len(UpperForms) : UpperForms[i] = c]]

LowerChar(c) == IF c \in DOMAIN LowerOf THEN LowerOf[c] ELSE c

\* the cased characters that are not case-ignorable
CasedChars ==
    {"A", "B", "C", "D", "E", "F", "G", "H", "I", "J", "K", "L", "M", "N", "O", "P", "Q", "R",
     "S", "T", "U", "V", "W", "X", "Y", "Z", "a", "b", "c", "d", "e", "f", "g", "h", "i", "j",
     "k", "l", "m", "n", "o", "p", "q", "r", "s", "t", "u", "v", "w", "x", "y", "z", "U+00AA",
     "U+00B5", "U+00BA", "U+00C0", "U+00C1", "U+00C2", "U+00C3", "U+00C4", "U+00C5", "U+00C6",
     "U+00C7", "U+00C8", "U+00C9", "U+00CA", "U+00CB", "U+00CC", "U+00CD", "U+00CE", "U+00CF",
     "U+00D0", "U+00D1", "U+00D2", "U+00D3", "U+00D4", "U+00D5", "U+00D6", "U+00D8", "U+00D9",
     "U+00DA", "U+00DB", "U+00DC", "U+00DD", "U+00DE", "U+00DF", "U+00E0", "U+00E1", "U+00E2",
     "U+00E3", "U+00E4", "U+00E5", "U+00E6", "U+00E7", "U+00E8", "U+00E9", "U+00EA", "U+00EB",
     "U+00EC", "U+00ED", "U+00EE", "U+00EF", "U+00F0", "U+00F1", "U+00F2", "U+00F3", "U+00F4",
     "U+00F5", "U+00F6", "U+00F8", "U+00F9", "U+00FA", "U+00FB", "U+00FC", "U+00FD", "U+00FE",
     "U+00FF", "U+0100", "U+0101", "U+0102", "U+0103", "U+0104", "U+0105", "U+0106", "U+0107",
     "U+0108", "U+0109", "U+010A", "U+010B", "U+010C", "U+010D", "U+010E", "U+010F", "U+0110",
     "U+0111", "U+0112", "U+0113", "U+0114", "U+0115", "U+0116", "U+0117", "U+0118", "U+0119",
     "U+011A", "U+011B", "U+011C", "U+011D", "U+011E", "U+011F", "U+0120", "U+0121", "U+0122",
     "U+0123", "U+0124", "U+0125", "U+0126", "U+0127", "U+0128", "U+0129", "U+012A", "U+012B",
     "U+012C", "U+012D", "U+012E", "U+012F", "U+0130", "U+0131", "U+0132", "U+0133", "U+0134",
     "U+0135", "U+0136", "U+0137", "U+0138", "U+0139", "U+013A", "U+013B", "U+013C", "U+013D",
     "U+013E", "U+013F", "U+0140", "U+0141", "U+0142", "U+0143", "U+0144", "U+0145", "U+0146",
     "U+0147", "U+0148", "U+0149", "U+014A", "U+014B", "U+014C", "U+014D", "U+014E", "U+014F",
     "U+0150", "U+0151", "U+0152", "U+0153", "U+0154", "U+0155", "U+0156", "U+0157", "U+0158",
     "U+0159", "U+015A", "U+015B", "U+015C", "U+015D", "U+015E", "U+015F", "U+0160", "U+0161",
     "U+0162", "U+0163", "U+0164", "U+0165", "U+0166", "U+0167", "U+0168", "U+0169", "U+016A",
     "U+016B", "U+016C", "U+016D", "U+016E", "U+016F", "U+0170", "U+0171", "U+0172", "U+0173",
     "U+0174", "U+0175", "U+0176", "U+0177", "U+0178", "U+0179", "U+017A", "U+017B", "U+017C",
     "U+017D", "U+017E", "U+017F", "U+0180", "U+0181", "U+0182", "U+0183", "U+0184", "U+0185",
     "U+0186", "U+0187", "U+0188", "U+0189", "U+018A", "U+018B", "U+018C", "U+018D", "U+018E",
     "U+018F", "U+0190", "U+0191", "U+0192", "U+0193", "U+0194", "U+0195", "U+0196", "U+0197",
     "U+0198", "U+0199", "U+019A", "U+019B", "U+019C", "U+019D", "U+019E", "U+019F", "U+01A0",
     "U+01A1", "U+01A2", "U+01A3", "U+01A4", "U+01A5", "U+01A6", "U+01A7", "U+01A8", "U+01A9",
     "U+01AA", "U+01AB", "U+01AC", "U+01AD", "U+01AE", "U+01AF", "U+01B0", "U+01B1", "U+01B2",
     "U+01B3", "U+01B4", "U+01B5", "U+01B6", "U+01B7", "U+01B8", "U+01B9", "U+01BA", "U+01BC",
     "U+01BD", "U+01BE", "U+01BF", "U+01C4", "U+01C5", "U+01C6", "U+01C7", "U+01C8", "U+01C9",
     "U+01CA", "U+01CB", "U+01CC", "U+01CD", "U+01CE", "U+01CF", "U+01D0", "U+01D1", "U+01D2",
     "U+01D3", "U+01D4", "U+01D5", "U+01D6", "U+01D7", "U+01D8", "U+01D9", "U+01DA", "U+01DB",
     "U+01DC", "U+01DD", "U+01DE", "U+01DF", "U+01E0", "U+01E1", "U+01E2", "U+01E3", "U+01E4",
     "U+01E5", "U+01E6", "U+01E7", "U+01E8", "U+01E9", "U+01EA", "U+01EB", "U+01EC", "U+01ED",
     "U+01EE", "U+01EF", "U+01F0", "U+01F1", "U+01F2", "U+01F3", "U+01F4", "U+01F5", "U+01F6",
     "U+01F7", "U+01F8", "U+01F9", "U+01FA", "U+01FB", "U+01FC", "U+01FD", "U+01FE", "U+01FF",
     "U+0200", "U+0201", "U+0202", "U+0203", "U+0204", "U+0205", "U+0206", "U+0207", "U+0208",
     "U+0209", "U+020A", "U+020B", "U+020C", "U+020D", "U+020E", "U+020F", "U+0210", "U+0211",
     "U+0212", "U+0213", "U+0214", "U+0215", "U+0216", "U+0217", "U+0218", "U+0219", "U+021A",
     "U+021B", "U+021C", "U+021D", "U+021E", "U+021F", "U+0220", "U+0221", "U+0222", "U+0223",
     "U+0224", "U+0225", "U+0226", "U+0227", "U+0228", "U+0229", "U+022A", "U+022B", "U+022C",
     "U+022D", "U+022E", "U+022F", "U+0230", "U+0231", "U+0232", "U+0233", "U+0234", "U+0235",
     "U+0236", "U+0237", "U+0238", "U+0239", "U+023A", "U+023B", "U+023C", "U+023D", "U+023E",
     "U+023F", "U+0240", "U+0241", "U+0242", "U+0243", "U+0244", "U+0245", "U+0246", "U+0247",
     "U+0248", "U+0249", "U+024A", "U+024B", "U+024C", "U+024D", "U+024E", "U+024F", "U+0250",
     "U+0251", "U+0252", "U+0253", "U+0254", "U+0255", "U+0256", "U+0257", "U+0258", "U+0259",
     "U+025A", "U+025B", "U+025C", "U+025D", "U+025E", "U+025F", "U+0260", "U+0261", "U+0262",
     "U+0263", "U+0264", "U+0265", "U+0266", "U+0267", "U+0268", "U+0269", "U+026A", "U+026B",
     "U+026C", "U+026D", "U+026E", "U+026F", "U+0270", "U+0271", "U+0272", "U+0273", "U+0274",
     "U+0275", "U+0276", "U+0277", "U+0278", "U+0279", "U+027A", "U+027B", "U+027C", "U+027D",
     "U+027E", "U+027F", "U+0280", "U+0281", "U+0282", "U+0283", "U+0284", "U+0285", "U+0286",
     "U+0287", "U+0288", "U+0289", "U+028A", "U+028B", "U+028C", "U+028D", "U+028E", "U+028F",
     "U+0290", "U+0291", "U+0292", "U+0293", "U+0295", "U+0296", "U+0297", "U+0298", "U+0299",
     "U+029A", "U+029B", "U+029C", "U+029D", "U+029E", "U+029F", "U+02A0", "U+02A1", "U+02A2",
     "U+02A3", "U+02A4", "U+02A5", "U+02A6", "U+02A7", "U+02A8", "U+02A9", "U+02AA", "U+02AB",
     "U+02AC", "U+02AD", "U+02AE", "U+02AF", "U+0370", "U+0371", "U+0372", "U+0373", "U+0376",
     "U+0377", "U+037B", "U+037C", "U+037D", "U+037F", "U+0386", "U+0388", "U+0389", "U+038A",
     "U+038C", "U+038E", "U+038F", "U+0390", "U+0391", "U+0392", "U+0393", "U+0394", "U+0395",
     "U+0396", "U+0397", "U+0398", "U+0399", "U+039A", "U+039B", "U+039C", "U+039D", "U+039E",
     "U+039F", "U+03A0", "U+03A1", "U+03A3", "U+03A4", "U+03A5", "U+03A6", "U+03A7", "U+03A8",
     "U+03A9", "U+03AA", "U+03AB", "U+03AC", "U+03AD", "U+03AE", "U+03AF", "U+03B0", "U+03B1",
     "U+03B2", "U+03B3", "U+03B4", "U+03B5", "U+03B6", "U+03B7", "U+03B8", "U+03B9", "U+03BA",
     "U+03BB", "U+03BC", "U+03BD", "U+03BE", "U+03BF", "U+03C0", "U+03C1", "U+03C2", "U+03C3",
     "U+03C4", "U+03C5", "U+03C6", "U+03C7", "U+03C8", "U+03C9", "U+03CA", "U+03CB", "U+03CC",
     "U+03CD", "U+03CE", "U+03CF", "U+03D0", "U+03D1", "U+03D2", "U+03D3", "U+03D4", "U+03D5",
     "U+03D6", "U+03D7", "U+03D8", "U+03D9", "U+03DA", "U+03DB", "U+03DC", "U+03DD", "U+03DE",
     "U+03DF", "U+03E0", "U+03E1", "U+03E2", "U+03E3", "U+03E4", "U+03E5", "U+03E6", "U+03E7",
     "U+03E8", "U+03E9", "U+03EA", "U+03EB", "U+03EC", "U+03ED", "U+03EE", "U+03EF", "U+03F0",
     "U+03F1", "U+03F2", "U+03F3", "U+03F4", "U+03F5", "U+03F7", "U+03F8", "U+03F9", "U+03FA",
     "U+03FB", "U+03FC", "U+03FD", "U+03FE", "U+03FF", "U+0400", "U+0401", "U+0402", "U+0403",
     "U+0404", "U+0405", "U+0406", "U+0407", "U+0408", "U+0409", "U+040A", "U+040B", "U+040C",
     "U+040D", "U+040E", "U+040F", "U+0410", "U+0411", "U+0412", "U+0413", "U+0414", "U+0415",
     "U+0416", "U+0417", "U+0418", "U+0419", "U+041A", "U+041B", "U+041C", "U+041D", "U+041E",
     "U+041F", "U+0420", "U+0421", "U+0422", "U+0423", "U+0424", "U+0425", "U+0426", "U+0427",
     "U+0428", "U+0429", "U+042A", "U+042B", "U+042C", "U+042D", "U+042E", "U+042F", "U+0430",
     "U+0431", "U+0432", "U+0433", "U+0434", "U+0435", "U+0436", "U+0437", "U+0438", "U+0439",
     "U+043A", "U+043B", "U+043C", "U+043D", "U+043E", "U+043F", "U+0440", "U+0441", "U+0442",
     "U+0443", "U+0444", "U+0445", "U+0446", "U+0447", "U+0448", "U+0449", "U+044A", "U+044B",
     "U+044C", "U+044D", "U+044E", "U+044F", "U+0450", "U+0451", "U+0452", "U+0453", "U+0454",
     "U+0455", "U+0456", "U+0457", "U+0458", "U+0459", "U+045A", "U+045B", "U+045C", "U+045D",
     "U+045E", "U+045F", "U+0460", "U+0461", "U+0462", "U+0463", "U+0464", "U+0465", "U+0466",
     "U+0467", "U+0468", "U+0469", "U+046A", "U+046B", "U+046C", "U+046D", "U+046E", "U+046F",
     "U+0470", "U+0471", "U+0472", "U+0473", "U+0474", "U+0475", "U+0476", "U+0477", "U+0478",
     "U+0479", "U+047A", "U+047B", "U+047C", "U+047D", "U+047E", "U+047F", "U+0480", "U+0481",
     "U+048A", "U+048B", "U+048C", "U+048D", "U+048E", "U+048F", "U+0490", "U+0491", "U+0492",
     "U+0493", "U+0494", "U+0495", "U+0496", "U+0497", "U+0498", "U+0499", "U+049A", "U+049B",
     "U+049C", "U+049D", "U+049E", "U+049F", "U+04A0", "U+04A1", "U+04A2", "U+04A3", "U+04A4",
     "U+04A5", "U+04A6", "U+04A7", "U+04A8", "U+04A9", "U+04AA", "U+04AB", "U+04AC", "U+04AD",
     "U+04AE", "U+04AF", "U+04B0", "U+04B1", "U+04B2", "U+04B3", "U+04B4", "U+04B5", "U+04B6",
     "U+04B7", "U+04B8", "U+04B9", "U+04BA", "U+04BB", "U+04BC", "U+04BD", "U+04BE", "U+04BF",
     "U+04C0", "U+04C1", "U+04C2", "U+04C3", "U+04C4", "U+04C5", "U+04C6", "U+04C7", "U+04C8",
     "U+04C9", "U+04CA", "U+04CB", "U+04CC", "U+04CD", "U+04CE", "U+04CF", "U+04D0", "U+04D1",
     "U+04D2", "U+04D3", "U+04D4", "U+04D5", "U+04D6", "U+04D7", "U+04D8", "U+04D9", "U+04DA",
     "U+04DB", "U+04DC", "U+04DD", "U+04DE", "U+04DF", "U+04E0", "U+04E1", "U+04E2", "U+04E3",
     "U+04E4", "U+04E5", "U+04E6", "U+04E7", "U+04E8", "U+04E9", "U+04EA", "U+04EB", "U+04EC",
     "U+04ED", "U+04EE", "U+04EF", "U+04F0", "U+04F1", "U+04F2", "U+04F3", "U+04F4", "U+04F5",
     "U+04F6", "U+04F7", "U+04F8", "U+04F9", "U+04FA", "U+04FB", "U+04FC", "U+04FD", "U+04FE",
     "U+04FF", "U+0500", "U+0501", "U+0502", "U+0503", "U+0504", "U+0505", "U+0506", "U+0507",
     "U+0508", "U+0509", "U+050A", "U+050B", "U+050C", "U+050D", "U+050E", "U+050F", "U+0510",
     "U+0511", "U+0512", "U+0513", "U+0514", "U+0515", "U+0516", "U+0517", "U+0518", "U+0519",
     "U+051A", "U+051B", "U+051C", "U+051D", "U+051E", "U+051F", "U+0520", "U+0521", "U+0522",
     "U+0523", "U+0524", "U+0525", "U+0526", "U+0527", "U+0528", "U+0529", "U+052A", "U+052B",
     "U+052C", "U+052D", "U+052E", "U+052F", "U+0531", "U+0532", "U+0533", "U+0534", "U+0535",
     "U+0536", "U+0537", "U+0538", "U+0539", "U+053A", "U+053B", "U+053C", "U+053D", "U+053E",
     "U+053F", "U+0540", "U+0541", "U+0542", "U+0543", "U+0544", "U+0545", "U+0546", "U+0547",
     "U+0548", "U+0549", "U+054A", "U+054B", "U+054C", "U+054D", "U+054E", "U+054F", "U+0550",
     "U+0551", "U+0552", "U+0553", "U+0554", "U+0555", "U+0556", "U+0560", "U+0561", "U+0562",
     "U+0563", "U+0564", "U+0565", "U+0566", "U+0567", "U+0568", "U+0569", "U+056A", "U+056B",
     "U+056C", "U+056D", "U+056E", "U+056F", "U+0570", "U+0571", "U+0572", "U+0573", "U+0574",
     "U+0575", "U+0576", "U+0577", "U+0578", "U+0579", "U+057A", "U+057B", "U+057C", "U+057D",
     "U+057E", "U+057F", "U+0580", "U+0581", "U+0582", "U+0583", "U+0584", "U+0585", "U+0586",
     "U+0587", "U+0588", "U+10A0", "U+10A1", "U+10A2", "U+10A3", "U+10A4", "U+10A5", "U+10A6",
     "U+10A7", "U+10A8", "U+10A9", "U+10AA", "U+10AB", "U+10AC", "U+10AD", "U+10AE", "U+10AF",
     "U+10B0", "U+10B1", "U+10B2", "U+10B3", "U+10B4", "U+10B5", "U+10B6", "U+10B7", "U+10B8",
     "U+10B9", "U+10BA", "U+10BB", "U+10BC", "U+10BD", "U+10BE", "U+10BF", "U+10C0", "U+10C1",
     "U+10C2", "U+10C3", "U+10C4", "U+10C5", "U+10C7", "U+10CD", "U+10D0", "U+10D1", "U+10D2",
     "U+10D3", "U+10D4", "U+10D5", "U+10D6", "U+10D7", "U+10D8", "U+10D9", "U+10DA", "U+10DB",
     "U+10DC", "U+10DD", "U+10DE", "U+10DF", "U+10E0", "U+10E1", "U+10E2", "U+10E3", "U+10E4",
     "U+10E5", "U+10E6", "U+10E7", "U+10E8", "U+10E9", "U+10EA", "U+10EB", "U+10EC", "U+10ED",
     "U+10EE", "U+10EF", "U+10F0", "U+10F1", "U+10F2", "U+10F3", "U+10F4", "U+10F5", "U+10F6",
     "U+10F7", "U+10F8", "U+10F9", "U+10FA", "U+10FD", "U+10FE", "U+10FF", "U+13A0", "U+13A1",
     "U+13A2", "U+13A3", "U+13A4", "U+13A5", "U+13A6", "U+13A7", "U+13A8", "U+13A9", "U+13AA",
     "U+13AB", "U+13AC", "U+13AD", "U+13AE", "U+13AF", "U+13B0", "U+13B1", "U+13B2", "U+13B3",
     "U+13B4", "U+13B5", "U+13B6", "U+13B7", "U+13B8", "U+13B9", "U+13BA", "U+13BB", "U+13BC",
     "U+13BD", "U+13BE", "U+13BF", "U+13C0", "U+13C1", "U+13C2", "U+13C3", "U+13C4", "U+13C5",
     "U+13C6", "U+13C7", "U+13C8", "U+13C9", "U+13CA", "U+13CB", "U+13CC", "U+13CD", "U+13CE",
     "U+13CF", "U+13D0", "U+13D1", "U+13D2", "U+13D3", "U+13D4", "U+13D5", "U+13D6", "U+13D7",
     "U+13D8", "U+13D9", "U+13DA", "U+13DB", "U+13DC", "U+13DD", "U+13DE", "U+13DF", "U+13E0",
     "U+13E1", "U+13E2", "U+13E3", "U+13E4", "U+13E5", "U+13E6", "U+13E7", "U+13E8", "U+13E9",
     "U+13EA", "U+13EB", "U+13EC", "U+13ED", "U+13EE", "U+13EF", "U+13F0", "U+13F1", "U+13F2",
     "U+13F3", "U+13F4", "U+13F5", "U+13F8", "U+13F9", "U+13FA", "U+13FB", "U+13FC", "U+13FD",
     "U+1C80", "U+1C81", "U+1C82", "U+1C83", "U+1C84", "U+1C85", "U+1C86", "U+1C87", "U+1C88",
     "U+1C90", "U+1C91", "U+1C92", "U+1C93", "U+1C94", "U+1C95", "U+1C96", "U+1C97", "U+1C98",
     "U+1C99", "U+1C9A", "U+1C9B", "U+1C9C", "U+1C9D", "U+1C9E", "U+1C9F", "U+1CA0", "U+1CA1",
     "U+1CA2", "U+1CA3", "U+1CA4", "U+1CA5", "U+1CA6", "U+1CA7", "U+1CA8", "U+1CA9", "U+1CAA",
     "U+1CAB", "U+1CAC", "U+1CAD", "U+1CAE", "U+1CAF", "U+1CB0", "U+1CB1", "U+1CB2", "U+1CB3",
     "U+1CB4", "U+1CB5", "U+1CB6", "U+1CB7", "U+1CB8", "U+1CB9", "U+1CBA", "U+1CBD", "U+1CBE",
     "U+1CBF", "U+1D00", "U+1D01", "U+1D02", "U+1D03", "U+1D04", "U+1D05", "U+1D06", "U+1D07",
     "U+1D08", "U+1D09", "U+1D0A", "U+1D0B", "U+1D0C", "U+1D0D", "U+1D0E", "U+1D0F", "U+1D10",
     "U+1D11", "U+1D12", "U+1D13", "U+1D14", "U+1D15", "U+1D16", "U+1D17", "U+1D18", "U+1D19",
     "U+1D1A", "U+1D1B", "U+1D1C", "U+1D1D", "U+1D1E", "U+1D1F", "U+1D20", "U+1D21", "U+1D22",
     "U+1D23", "U+1D24", "U+1D25", "U+1D26", "U+1D27", "U+1D28", "U+1D29", "U+1D2A", "U+1D2B",
     "U+1D6B", "U+1D6C", "U+1D6D", "U+1D6E", "U+1D6F", "U+1D70", "U+1D71", "U+1D72", "U+1D73",
     "U+1D74", "U+1D75", "U+1D76", "U+1D77", "U+1D79", "U+1D7A", "U+1D7B", "U+1D7C", "U+1D7D",
     "U+1D7E", "U+1D7F", "U+1D80", "U+1D81", "U+1D82", "U+1D83", "U+1D84", "U+1D85", "U+1D86",
     "U+1D87", "U+1D88", "U+1D89", "U+1D8A", "U+1D8B", "U+1D8C", "U+1D8D", "U+1D8E", "U+1D8F",
     "U+1D90", "U+1D91", "U+1D92", "U+1D93", "U+1D94", "U+1D95", "U+1D96", "U+1D97", "U+1D98",
     "U+1D99", "U+1D9A", "U+1E00", "U+1E01", "U+1E02", "U+1E03", "U+1E04", "U+1E05", "U+1E06",
     "U+1E07", "U+1E08", "U+1E09", "U+1E0A", "U+1E0B", "U+1E0C", "U+1E0D", "U+1E0E", "U+1E0F",
     "U+1E10", "U+1E11", "U+1E12", "U+1E13", "U+1E14", "U+1E15", "U+1E16", "U+1E17", "U+1E18",
     "U+1E19", "U+1E1A", "U+1E1B", "U+1E1C", "U+1E1D", "U+1E1E", "U+1E1F", "U+1E20", "U+1E21",
     "U+1E22", "U+1E23", "U+1E24", "U+1E25", "U+1E26", "U+1E27", "U+1E28", "U+1E29", "U+1E2A",
     "U+1E2B", "U+1E2C", "U+1E2D", "U+1E2E", "U+1E2F", "U+1E30", "U+1E31", "U+1E32", "U+1E33",
     "U+1E34", "U+1E35", "U+1E36", "U+1E37", "U+1E38", "U+1E39", "U+1E3A", "U+1E3B", "U+1E3C",
     "U+1E3D", "U+1E3E", "U+1E3F", "U+1E40", "U+1E41", "U+1E42", "U+1E43", "U+1E44", "U+1E45",
     "U+1E46", "U+1E47", "U+1E48", "U+1E49", "U+1E4A", "U+1E4B", "U+1E4C", "U+1E4D", "U+1E4E",
     "U+1E4F", "U+1E50", "U+1E51", "U+1E52", "U+1E53", "U+1E54", "U+1E55", "U+1E56", "U+1E57",
     "U+1E58", "U+1E59", "U+1E5A", "U+1E5B", "U+1E5C", "U+1E5D", "U+1E5E", "U+1E5F", "U+1E60",
     "U+1E61", "U+1E62", "U+1E63", "U+1E64", "U+1E65", "U+1E66", "U+1E67", "U+1E68", "U+1E69",
     "U+1E6A", "U+1E6B", "U+1E6C", "U+1E6D", "U+1E6E", "U+1E6F", "U+1E70", "U+1E71", "U+1E72",
     "U+1E73", "U+1E74", "U+1E75", "U+1E76", "U+1E77", "U+1E78", "U+1E79", "U+1E7A", "U+1E7B",
     "U+1E7C", "U+1E7D", "U+1E7E", "U+1E7F", "U+1E80", "U+1E81", "U+1E82", "U+1E83", "U+1E84",
     "U+1E85", "U+1E86", "U+1E87", "U+1E88", "U+1E89", "U+1E8A", "U+1E8B", "U+1E8C", "U+1E8D",
     "U+1E8E", "U+1E8F", "U+1E90", "U+1E91", "U+1E92", "U+1E93", "U+1E94", "U+1E95", "U+1E96",
     "U+1E97", "U+1E98", "U+1E99", "U+1E9A", "U+1E9B", "U+1E9C", "U+1E9D", "U+1E9E", "U+1E9F",
     "U+1EA0", "U+1EA1", "U+1EA2", "U+1EA3", "U+1EA4", "U+1EA5", "U+1EA6", "U+1EA7", "U+1EA8",
     "U+1EA9", "U+1EAA", "U+1EAB", "U+1EAC", "U+1EAD", "U+1EAE", "U+1EAF", "U+1EB0", "U+1EB1",
     "U+1EB2", "U+1EB3", "U+1EB4", "U+1EB5", "U+1EB6", "U+1EB7", "U+1EB8", "U+1EB9", "U+1EBA",
     "U+1EBB", "U+1EBC", "U+1EBD", "U+1EBE", "U+1EBF", "U+1EC0", "U+1EC1", "U+1EC2", "U+1EC3",
     "U+1EC4", "U+1EC5", "U+1EC6", "U+1EC7", "U+1EC8", "U+1EC9", "U+1ECA", "U+1ECB", "U+1ECC",
     "U+1ECD", "U+1ECE", "U+1ECF", "U+1ED0", "U+1ED1", "U+1ED2", "U+1ED3", "U+1ED4", "U+1ED5",
     "U+1ED6", "U+1ED7", "U+1ED8", "U+1ED9", "U+1EDA", "U+1EDB", "U+1EDC", "U+1EDD", "U+1EDE",
     "U+1EDF", "U+1EE0", "U+1EE1", "U+1EE2", "U+1EE3", "U+1EE4", "U+1EE5", "U+1EE6", "U+1EE7",
     "U+1EE8", "U+1EE9", "U+1EEA", "U+1EEB", "U+1EEC", "U+1EED", "U+1EEE", "U+1EEF", "U+1EF0",
     "U+1EF1", "U+1EF2", "U+1EF3", "U+1EF4", "U+1EF5", "U+1EF6", "U+1EF7", "U+1EF8", "U+1EF9",
     "U+1EFA", "U+1EFB", "U+1EFC", "U+1EFD", "U+1EFE", "U+1EFF", "U+1F00", "U+1F01", "U+1F02",
     "U+1F03", "U+1F04", "U+1F05", "U+1F06", "U+1F07", "U+1F08", "U+1F09", "U+1F0A", "U+1F0B",
     "U+1F0C", "U+1F0D", "U+1F0E", "U+1F0F", "U+1F10", "U+1F11", "U+1F12", "U+1F13", "U+1F14",
     "U+1F15", "U+1F18", "U+1F19", "U+1F1A", "U+1F1B", "U+1F1C", "U+1F1D", "U+1F20", "U+1F21",
     "U+1F22", "U+1F23", "U+1F24", "U+1F25", "U+1F26", "U+1F27", "U+1F28", "U+1F29", "U+1F2A",
     "U+1F2B", "U+1F2C", "U+1F2D", "U+1F2E", "U+1F2F", "U+1F30", "U+1F31", "U+1F32", "U+1F33",
     "U+1F34", "U+1F35", "U+1F36", "U+1F37", "U+1F38", "U+1F39", "U+1F3A", "U+1F3B", "U+1F3C",
     "U+1F3D", "U+1F3E", "U+1F3F", "U+1F40", "U+1F41", "U+1F42", "U+1F43", "U+1F44", "U+1F45",
     "U+1F48", "U+1F49", "U+1F4A", "U+1F4B", "U+1F4C", "U+1F4D", "U+1F50", "U+1F51", "U+1F52",
     "U+1F53", "U+1F54", "U+1F55", "U+1F56", "U+1F57", "U+1F59", "U+1F5B", "U+1F5D", "U+1F5F",
     "U+1F60", "U+1F61", "U+1F62", "U+1F63", "U+1F64", "U+1F65", "U+1F66", "U+1F67", "U+1F68",
     "U+1F69", "U+1F6A", "U+1F6B", "U+1F6C", "U+1F6D", "U+1F6E", "U+1F6F", "U+1F70", "U+1F71",
     "U+1F72", "U+1F73", "U+1F74", "U+1F75", "U+1F76", "U+1F77", "U+1F78", "U+1F79", "U+1F7A",
     "U+1F7B", "U+1F7C", "U+1F7D", "U+1F80", "U+1F81", "U+1F82", "U+1F83", "U+1F84", "U+1F85",
     "U+1F86", "U+1F87", "U+1F88", "U+1F89", "U+1F8A", "U+1F8B", "U+1F8C", "U+1F8D", "U+1F8E",
     "U+1F8F", "U+1F90", "U+1F91", "U+1F92", "U+1F93", "U+1F94", "U+1F95", "U+1F96", "U+1F97",
     "U+1F98", "U+1F99", "U+1F9A", "U+1F9B", "U+1F9C", "U+1F9D", "U+1F9E", "U+1F9F", "U+1FA0",
     "U+1FA1", "U+1FA2", "U+1FA3", "U+1FA4", "U+1FA5", "U+1FA6", "U+1FA7", "U+1FA8", "U+1FA9",
     "U+1FAA", "U+1FAB", "U+1FAC", "U+1FAD", "U+1FAE", "U+1FAF", "U+1FB0", "U+1FB1", "U+1FB2",
     "U+1FB3", "U+1FB4", "U+1FB6", "U+1FB7", "U+1FB8", "U+1FB9", "U+1FBA", "U+1FBB", "U+1FBC",
     "U+1FBE", "U+1FC2", "U+1FC3", "U+1FC4", "U+1FC6", "U+1FC7", "U+1FC8", "U+1FC9", "U+1FCA",
     "U+1FCB", "U+1FCC", "U+1FD0", "U+1FD1", "U+1FD2", "U+1FD3", "U+1FD6", "U+1FD7", "U+1FD8",
     "U+1FD9", "U+1FDA", "U+1FDB", "U+1FE0", "U+1FE1", "U+1FE2", "U+1FE3", "U+1FE4", "U+1FE5",
     "U+1FE6", "U+1FE7", "U+1FE8", "U+1FE9", "U+1FEA", "U+1FEB", "U+1FEC", "U+1FF2", "U+1FF3",
     "U+1FF4", "U+1FF6", "U+1FF7", "U+1FF8", "U+1FF9", "U+1FFA", "U+1FFB", "U+1FFC", "U+2102",
     "U+2107", "U+210A", "U+210B", "U+210C", "U+210D", "U+210E", "U+210F", "U+2110", "U+2111",
     "U+2112", "U+2113", "U+2115", "U+2119", "U+211A", "U+211B", "U+211C", "U+211D", "U+2124",
     "U+2126", "U+2128", "U+212A", "U+212B", "U+212C", "U+212D", "U+212F", "U+2130", "U+2131",
     "U+2132", "U+2133", "U+2134", "U+2139", "U+213C", "U+213D", "U+213E", "U+213F", "U+2145",
     "U+2146", "U+2147", "U+2148", "U+2149", "U+214E", "U+2160", "U+2161", "U+2162", "U+2163",
     "U+2164", "U+2165", "U+2166", "U+2167", "U+2168", "U+2169", "U+216A", "U+216B", "U+216C",
     "U+216D", "U+216E", "U+216F", "U+2170", "U+2171", "U+2172", "U+2173", "U+2174", "U+2175",
     "U+2176", "U+2177", "U+2178", "U+2179", "U+217A", "U+217B", "U+217C", "U+217D", "U+217E",
     "U+217F", "U+2183", "U+2184", "U+24B6", "U+24B7", "U+24B8", "U+24B9", "U+24BA", "U+24BB",
     "U+24BC", "U+24BD", "U+24BE", "U+24BF", "U+24C0", "U+24C1", "U+24C2", "U+24C3", "U+24C4",
     "U+24C5", "U+24C6", "U+24C7", "U+24C8", "U+24C9", "U+24CA", "U+24CB", "U+24CC", "U+24CD",
     "U+24CE", "U+24CF", "U+24D0", "U+24D1", "U+24D2", "U+24D3", "U+24D4", "U+24D5", "U+24D6",
     "U+24D7", "U+24D8", "U+24D9", "U+24DA", "U+24DB", "U+24DC", "U+24DD", "U+24DE", "U+24DF",
     "U+24E0", "U+24E1", "U+24E2", "U+24E3", "U+24E4", "U+24E5", "U+24E6", "U+24E7", "U+24E8",
     "U+24E9", "U+2C00", "U+2C01", "U+2C02", "U+2C03", "U+2C04", "U+2C05", "U+2C06", "U+2C07",
     "U+2C08", "U+2C09", "U+2C0A", "U+2C0B", "U+2C0C", "U+2C0D", "U+2C0E", "U+2C0F", "U+2C10",
     "U+2C11", "U+2C12", "U+2C13", "U+2C14", "U+2C15", "U+2C16", "U+2C17", "U+2C18", "U+2C19",
     "U+2C1A", "U+2C1B", "U+2C1C", "U+2C1D", "U+2C1E", "U+2C1F", "U+2C20", "U+2C21", "U+2C22",
     "U+2C23", "U+2C24", "U+2C25", "U+2C26", "U+2C27", "U+2C28", "U+2C29", "U+2C2A", "U+2C2B",
     "U+2C2C", "U+2C2D", "U+2C2E", "U+2C2F", "U+2C30", "U+2C31", "U+2C32", "U+2C33", "U+2C34",
     "U+2C35", "U+2C36", "U+2C37", "U+2C38", "U+2C39", "U+2C3A", "U+2C3B", "U+2C3C", "U+2C3D",
     "U+2C3E", "U+2C3F", "U+2C40", "U+2C41", "U+2C42", "U+2C43", "U+2C44", "U+2C45", "U+2C46",
     "U+2C47", "U+2C48", "U+2C49", "U+2C4A", "U+2C4B", "U+2C4C", "U+2C4D", "U+2C4E", "U+2C4F",
     "U+2C50", "U+2C51", "U+2C52", "U+2C53", "U+2C54", "U+2C55", "U+2C56", "U+2C57", "U+2C58",
     "U+2C59", "U+2C5A", "U+2C5B", "U+2C5C", "U+2C5D", "U+2C5E", "U+2C5F", "U+2C60", "U+2C61",
     "U+2C62", "U+2C63", "U+2C64", "U+2C65", "U+2C66", "U+2C67", "U+2C68", "U+2C69", "U+2C6A",
     "U+2C6B", "U+2C6C", "U+2C6D", "U+2C6E", "U+2C6F", "U+2C70", "U+2C71", "U+2C72", "U+2C73",
     "U+2C74", "U+2C75", "U+2C76", "U+2C77", "U+2C78", "U+2C79", "U+2C7A", "U+2C7B", "U+2C7E",
     "U+2C7F", "U+2C80", "U+2C81", "U+2C82", "U+2C83", "U+2C84", "U+2C85", "U+2C86", "U+2C87",
     "U+2C88", "U+2C89", "U+2C8A", "U+2C8B", "U+2C8C", "U+2C8D", "U+2C8E", "U+2C8F", "U+2C90",
     "U+2C91", "U+2C92", "U+2C93", "U+2C94", "U+2C95", "U+2C96", "U+2C97", "U+2C98", "U+2C99",
     "U+2C9A", "U+2C9B", "U+2C9C", "U+2C9D", "U+2C9E", "U+2C9F", "U+2CA0", "U+2CA1", "U+2CA2",
     "U+2CA3", "U+2CA4", "U+2CA5", "U+2CA6", "U+2CA7", "U+2CA8", "U+2CA9", "U+2CAA", "U+2CAB",
     "U+2CAC", "U+2CAD", "U+2CAE", "U+2CAF", "U+2CB0", "U+2CB1", "U+2CB2", "U+2CB3", "U+2CB4",
     "U+2CB5", "U+2CB6", "U+2CB7", "U+2CB8", "U+2CB9", "U+2CBA", "U+2CBB", "U+2CBC", "U+2CBD",
     "U+2CBE", "U+2CBF", "U+2CC0", "U+2CC1", "U+2CC2", "U+2CC3", "U+2CC4", "U+2CC5", "U+2CC6",
     "U+2CC7", "U+2CC8", "U+2CC9", "U+2CCA", "U+2CCB", "U+2CCC", "U+2CCD", "U+2CCE", "U+2CCF",
     "U+2CD0", "U+2CD1", "U+2CD2", "U+2CD3", "U+2CD4", "U+2CD5", "U+2CD6", "U+2CD7", "U+2CD8",
     "U+2CD9", "U+2CDA", "U+2CDB", "U+2CDC", "U+2CDD", "U+2CDE", "U+2CDF", "U+2CE0", "U+2CE1",
     "U+2CE2", "U+2CE3", "U+2CE4", "U+2CEB", "U+2CEC", "U+2CED", "U+2CEE", "U+2CF2", "U+2CF3",
     "U+2D00", "U+2D01", "U+2D02", "U+2D03", "U+2D04", "U+2D05", "U+2D06", "U+2D07", "U+2D08",
     "U+2D09", "U+2D0A", "U+2D0B", "U+2D0C", "U+2D0D", "U+2D0E", "U+2D0F", "U+2D10", "U+2D11",
     "U+2D12", "U+2D13", "U+2D14", "U+2D15", "U+2D16", "U+2D17", "U+2D18", "U+2D19", "U+2D1A",
     "U+2D1B", "U+2D1C", "U+2D1D", "U+2D1E", "U+2D1F", "U+2D20", "U+2D21", "U+2D22", "U+2D23",
     "U+2D24", "U+2D25", "U+2D27", "U+2D2D", "U+A640", "U+A641", "U+A642", "U+A643", "U+A644",
     "U+A645", "U+A646", "U+A647", "U+A648", "U+A649", "U+A64A", "U+A64B", "U+A64C", "U+A64D",
     "U+A64E", "U+A64F", "U+A650", "U+A651", "U+A652", "U+A653", "U+A654", "U+A655", "U+A656",
     "U+A657", "U+A658", "U+A659", "U+A65A", "U+A65B", "U+A65C", "U+A65D", "U+A65E", "U+A65F",
     "U+A660", "U+A661", "U+A662", "U+A663", "U+A664", "U+A665", "U+A666", "U+A667", "U+A668",
     "U+A669", "U+A66A", "U+A66B", "U+A66C", "U+A66D", "U+A680", "U+A681", "U+A682", "U+A683",
     "U+A684", "U+A685", "U+A686", "U+A687", "U+A688", "U+A689", "U+A68A", "U+A68B", "U+A68C",
     "U+A68D", "U+A68E", "U+A68F", "U+A690", "U+A691", "U+A692", "U+A693", "U+A694", "U+A695",
     "U+A696", "U+A697", "U+A698", "U+A699", "U+A69A", "U+A69B", "U+A722", "U+A723", "U+A724",
     "U+A725", "U+A726", "U+A727", "U+A728", "U+A729", "U+A72A", "U+A72B", "U+A72C", "U+A72D",
     "U+A72E", "U+A72F", "U+A730", "U+A731", "U+A732", "U+A733", "U+A734", "U+A735", "U+A736",
     "U+A737", "U+A738", "U+A739", "U+A73A", "U+A73B", "U+A73C", "U+A73D", "U+A73E", "U+A73F",
     "U+A740", "U+A741", "U+A742", "U+A743", "U+A744", "U+A745", "U+A746", "U+A747", "U+A748",
     "U+A749", "U+A74A", "U+A74B", "U+A74C", "U+A74D", "U+A74E", "U+A74F", "U+A750", "U+A751",
     "U+A752", "U+A753", "U+A754", "U+A755", "U+A756", "U+A757", "U+A758", "U+A759", "U+A75A",
     "U+A75B", "U+A75C", "U+A75D", "U+A75E", "U+A75F", "U+A760", "U+A761", "U+A762", "U+A763",
     "U+A764", "U+A765", "U+A766", "U+A767", "U+A768", "U+A769", "U+A76A", "U+A76B", "U+A76C",
     "U+A76D", "U+A76E", "U+A76F", "U+A771", "U+A772", "U+A773", "U+A774", "U+A775", "U+A776",
     "U+A777", "U+A778", "U+A779", "U+A77A", "U+A77B", "U+A77C", "U+A77D", "U+A77E", "U+A77F",
     "U+A780", "U+A781", "U+A782", "U+A783", "U+A784", "U+A785", "U+A786", "U+A787", "U+A78B",
     "U+A78C", "U+A78D", "U+A78E", "U+A790", "U+A791", "U+A792", "U+A793", "U+A794", "U+A795",
     "U+A796", "U+A797", "U+A798", "U+A799", "U+A79A", "U+A79B", "U+A79C", "U+A79D", "U+A79E",
     "U+A79F", "U+A7A0", "U+A7A1", "U+A7A2", "U+A7A3", "U+A7A4", "U+A7A5", "U+A7A6", "U+A7A7",
     "U+A7A8", "U+A7A9", "U+A7AA", "U+A7AB", "U+A7AC", "U+A7AD", "U+A7AE", "U+A7AF", "U+A7B0",
     "U+A7B1", "U+A7B2", "U+A7B3", "U+A7B4", "U+A7B5", "U+A7B6", "U+A7B7", "U+A7B8", "U+A7B9",
     "U+A7BA", "U+A7BB", "U+A7BC", "U+A7BD", "U+A7BE", "U+A7BF", "U+A7C0", "U+A7C1", "U+A7C2",
     "U+A7C3", "U+A7C4", "U+A7C5", "U+A7C6", "U+A7C7", "U+A7C8", "U+A7C9", "U+A7CA", "U+A7D0",
     "U+A7D1", "U+A7D3", "U+A7D5", "U+A7D6", "U+A7D7", "U+A7D8", "U+A7D9", "U+A7F5", "U+A7F6",
     "U+A7FA", "U+AB30", "U+AB31", "U+AB32", "U+AB33", "U+AB34", "U+AB35", "U+AB36", "U+AB37",
     "U+AB38", "U+AB39", "U+AB3A", "U+AB3B", "U+AB3C", "U+AB3D", "U+AB3E", "U+AB3F", "U+AB40",
     "U+AB41", "U+AB42", "U+AB43", "U+AB44", "U+AB45", "U+AB46", "U+AB47", "U+AB48", "U+AB49",
     "U+AB4A", "U+AB4B", "U+AB4C", "U+AB4D", "U+AB4E", "U+AB4F", "U+AB50", "U+AB51", "U+AB52",
     "U+AB53", "U+AB54", "U+AB55", "U+AB56", "U+AB57", "U+AB58", "U+AB59", "U+AB5A", "U+AB60",
     "U+AB61", "U+AB62", "U+AB63", "U+AB64", "U+AB65", "U+AB66", "U+AB67", "U+AB68", "U+AB70",
     "U+AB71", "U+AB72", "U+AB73", "U+AB74", "U+AB75", "U+AB76", "U+AB77", "U+AB78", "U+AB79",
     "U+AB7A", "U+AB7B", "U+AB7C", "U+AB7D", "U+AB7E", "U+AB7F", "U+AB80", "U+AB81", "U+AB82",
     "U+AB83", "U+AB84", "U+AB85", "U+AB86", "U+AB87", "U+AB88", "U+AB89", "U+AB8A", "U+AB8B",
     "U+AB8C", "U+AB8D", "U+AB8E", "U+AB8F", "U+AB90", "U+AB91", "U+AB92", "U+AB93", "U+AB94",
     "U+AB95", "U+AB96", "U+AB97", "U+AB98", "U+AB99", "U+AB9A", "U+AB9B", "U+AB9C", "U+AB9D",
     "U+AB9E", "U+AB9F", "U+ABA0", "U+ABA1", "U+ABA2", "U+ABA3", "U+ABA4", "U+ABA5", "U+ABA6",
     "U+ABA7", "U+ABA8", "U+ABA9", "U+ABAA", "U+ABAB", "U+ABAC", "U+ABAD", "U+ABAE", "U+ABAF",
     "U+ABB0", "U+ABB1", "U+ABB2", "U+ABB3", "U+ABB4", "U+ABB5", "U+ABB6", "U+ABB7", "U+ABB8",
     "U+ABB9", "U+ABBA", "U+ABBB", "U+ABBC", "U+ABBD", "U+ABBE", "U+ABBF", "U+FB00", "U+FB01",
     "U+FB02", "U+FB03", "U+FB04", "U+FB05", "U+FB06", "U+FB13", "U+FB14", "U+FB15", "U+FB16",
     "U+FB17", "U+FF21", "U+FF22", "U+FF23", "U+FF24", "U+FF25", "U+FF26", "U+FF27", "U+FF28",
     "U+FF29", "U+FF2A", "U+FF2B", "U+FF2C", "U+FF2D", "U+FF2E", "U+FF2F", "U+FF30", "U+FF31",
     "U+FF32", "U+FF33", "U+FF34", "U+FF35", "U+FF36", "U+FF37", "U+FF38", "U+FF39", "U+FF3A",
     "U+FF41", "U+FF42", "U+FF43", "U+FF44", "U+FF45", "U+FF46", "U+FF47", "U+FF48", "U+FF49",
     "U+FF4A", "U+FF4B", "U+FF4C", "U+FF4D", "U+FF4E", "U+FF4F", "U+FF50", "U+FF51", "U+FF52",
     "U+FF53", "U+FF54", "U+FF55", "U+FF56", "U+FF57", "U+FF58", "U+FF59", "U+FF5A", "U+10400",
     "U+10401", "U+10402", "U+10403", "U+10404", "U+10405", "U+10406", "U+10407", "U+10408",
     "U+10409", "U+1040A", "U+1040B", "U+1040C", "U+1040D", "U+1040E", "U+1040F", "U+10410",
     "U+10411", "U+10412", "U+10413", "U+10414", "U+10415", "U+10416", "U+10417", "U+10418",
     "U+10419", "U+1041A", "U+1041B", "U+1041C", "U+1041D", "U+1041E", "U+1041F", "U+10420",
     "U+10421", "U+10422", "U+10423", "U+10424", "U+10425", "U+10426", "U+10427", "U+10428",
     "U+10429", "U+1042A", "U+1042B", "U+1042C", "U+1042D", "U+1042E", "U+1042F", "U+10430",
     "U+10431", "U+10432", "U+10433", "U+10434", "U+10435", "U+10436", "U+10437", "U+10438",
     "U+10439", "U+1043A", "U+1043B", "U+1043C", "U+1043D", "U+1043E", "U+1043F", "U+10440",
     "U+10441", "U+10442", "U+10443", "U+10444", "U+10445", "U+10446", "U+10447", "U+10448",
     "U+10449", "U+1044A", "U+1044B", "U+1044C", "U+1044D", "U+1044E", "U+1044F", "U+104B0",
     "U+104B1", "U+104B2", "U+104B3", "U+104B4", "U+104B5", "U+104B6", "U+104B7", "U+104B8",
     "U+104B9", "U+104BA", "U+104BB", "U+104BC", "U+104BD", "U+104BE", "U+104BF", "U+104C0",
     "U+104C1", "U+104C2", "U+104C3", "U+104C4", "U+104C5", "U+104C6", "U+104C7", "U+104C8",
     "U+104C9", "U+104CA", "U+104CB", "U+104CC", "U+104CD", "U+104CE", "U+104CF", "U+104D0",
     "U+104D1", "U+104D2", "U+104D3", "U+104D8", "U+104D9", "U+104DA", "U+104DB", "U+104DC",
     "U+104DD", "U+104DE", "U+104DF", "U+104E0", "U+104E1", "U+104E2", "U+104E3", "U+104E4",
     "U+104E5", "U+104E6", "U+104E7", "U+104E8", "U+104E9", "U+104EA", "U+104EB", "U+104EC",
     "U+104ED", "U+104EE", "U+104EF", "U+104F0", "U+104F1", "U+104F2", "U+104F3", "U+104F4",
     "U+104F5", "U+104F6", "U+104F7", "U+104F8", "U+104F9", "U+104FA", "U+104FB", "U+10570",
     "U+10571", "U+10572", "U+10573", "U+10574", "U+10575", "U+10576", "U+10577", "U+10578",
     "U+10579", "U+1057A", "U+1057C", "U+1057D", "U+1057E", "U+1057F", "U+10580", "U+10581",
     "U+10582", "U+10583", "U+10584", "U+10585", "U+10586", "U+10587", "U+10588", "U+10589",
     "U+1058A", "U+1058C", "U+1058D", "U+1058E", "U+1058F", "U+10590", "U+10591", "U+10592",
     "U+10594", "U+10595", "U+10597", "U+10598", "U+10599", "U+1059A", "U+1059B", "U+1059C",
     "U+1059D", "U+1059E", "U+1059F", "U+105A0", "U+105A1", "U+105A3", "U+105A4", "U+105A5",
     "U+105A6", "U+105A7", "U+105A8", "U+105A9", "U+105AA", "U+105AB", "U+105AC", "U+105AD",
     "U+105AE", "U+105AF", "U+105B0", "U+105B1", "U+105B3", "U+105B4", "U+105B5", "U+105B6",
     "U+105B7", "U+105B8", "U+105B9", "U+105BB", "U+105BC", "U+10C80", "U+10C81", "U+10C82",
     "U+10C83", "U+10C84", "U+10C85", "U+10C86", "U+10C87", "U+10C88", "U+10C89", "U+10C8A",
     "U+10C8B", "U+10C8C", "U+10C8D", "U+10C8E", "U+10C8F", "U+10C90", "U+10C91", "U+10C92",
     "U+10C93", "U+10C94", "U+10C95", "U+10C96", "U+10C97", "U+10C98", "U+10C99", "U+10C9A",
     "U+10C9B", "U+10C9C", "U+10C9D", "U+10C9E", "U+10C9F", "U+10CA0", "U+10CA1", "U+10CA2",
     "U+10CA3", "U+10CA4", "U+10CA5", "U+10CA6", "U+10CA7", "U+10CA8", "U+10CA9", "U+10CAA",
     "U+10CAB", "U+10CAC", "U+10CAD", "U+10CAE", "U+10CAF", "U+10CB0", "U+10CB1", "U+10CB2",
     "U+10CC0", "U+10CC1", "U+10CC2", "U+10CC3", "U+10CC4", "U+10CC5", "U+10CC6", "U+10CC7",
     "U+10CC8", "U+10CC9", "U+10CCA", "U+10CCB", "U+10CCC", "U+10CCD", "U+10CCE", "U+10CCF",
     "U+10CD0", "U+10CD1", "U+10CD2", "U+10CD3", "U+10CD4", "U+10CD5", "U+10CD6", "U+10CD7",
     "U+10CD8", "U+10CD9", "U+10CDA", "U+10CDB", "U+10CDC", "U+10CDD", "U+10CDE", "U+10CDF",
     "U+10CE0", "U+10CE1", "U+10CE2", "U+10CE3", "U+10CE4", "U+10CE5", "U+10CE6", "U+10CE7",
     "U+10CE8", "U+10CE9", "U+10CEA", "U+10CEB", "U+10CEC", "U+10CED", "U+10CEE", "U+10CEF",
     "U+10CF0", "U+10CF1", "U+10CF2", "U+118A0", "U+118A1", "U+118A2", "U+118A3", "U+118A4",
     "U+118A5", "U+118A6", "U+118A7", "U+118A8", "U+118A9", "U+118AA", "U+118AB", "U+118AC",
     "U+118AD", "U+118AE", "U+118AF", "U+118B0", "U+118B1", "U+118B2", "U+118B3", "U+118B4",
     "U+118B5", "U+118B6", "U+118B7", "U+118B8", "U+118B9", "U+118BA", "U+118BB", "U+118BC",
     "U+118BD", "U+118BE", "U+118BF", "U+118C0", "U+118C1", "U+118C2", "U+118C3", "U+118C4",
     "U+118C5", "U+118C6", "U+118C7", "U+118C8", "U+118C9", "U+118CA", "U+118CB", "U+118CC",
     "U+118CD", "U+118CE", "U+118CF", "U+118D0", "U+118D1", "U+118D2", "U+118D3", "U+118D4",
     "U+118D5", "U+118D6", "U+118D7", "U+118D8", "U+118D9", "U+118DA", "U+118DB", "U+118DC",
     "U+118DD", "U+118DE", "U+118DF", "U+16E40", "U+16E41", "U+16E42", "U+16E43", "U+16E44",
     "U+16E45", "U+16E46", "U+16E47", "U+16E48", "U+16E49", "U+16E4A", "U+16E4B", "U+16E4C",
     "U+16E4D", "U+16E4E", "U+16E4F", "U+16E50", "U+16E51", "U+16E52", "U+16E53", "U+16E54",
     "U+16E55", "U+16E56", "U+16E57", "U+16E58", "U+16E59", "U+16E5A", "U+16E5B", "U+16E5C",
     "U+16E5D", "U+16E5E", "U+16E5F", "U+16E60", "U+16E61", "U+16E62", "U+16E63", "U+16E64",
     "U+16E65", "U+16E66", "U+16E67", "U+16E68", "U+16E69", "U+16E6A", "U+16E6B", "U+16E6C",
     "U+16E6D", "U+16E6E", "U+16E6F", "U+16E70", "U+16E71", "U+16E72", "U+16E73", "U+16E74",
     "U+16E75", "U+16E76", "U+16E77", "U+16E78", "U+16E79", "U+16E7A", "U+16E7B", "U+16E7C",
     "U+16E7D", "U+16E7E", "U+16E7F", "U+1D400", "U+1D401", "U+1D402", "U+1D403", "U+1D404",
     "U+1D405", "U+1D406", "U+1D407", "U+1D408", "U+1D409", "U+1D40A", "U+1D40B", "U+1D40C",
     "U+1D40D", "U+1D40E", "U+1D40F", "U+1D410", "U+1D411", "U+1D412", "U+1D413", "U+1D414",
     "U+1D415", "U+1D416", "U+1D417", "U+1D418", "U+1D419", "U+1D41A", "U+1D41B", "U+1D41C",
     "U+1D41D", "U+1D41E", "U+1D41F", "U+1D420", "U+1D421", "U+1D422", "U+1D423", "U+1D424",
     "U+1D425", "U+1D426", "U+1D427", "U+1D428", "U+1D429", "U+1D42A", "U+1D42B", "U+1D42C",
     "U+1D42D", "U+1D42E", "U+1D42F", "U+1D430", "U+1D431", "U+1D432", "U+1D433", "U+1D434",
     "U+1D435", "U+1D436", "U+1D437", "U+1D438", "U+1D439", "U+1D43A", "U+1D43B", "U+1D43C",
     "U+1D43D", "U+1D43E", "U+1D43F", "U+1D440", "U+1D441", "U+1D442", "U+1D443", "U+1D444",
     "U+1D445", "U+1D446", "U+1D447", "U+1D448", "U+1D449", "U+1D44A", "U+1D44B", "U+1D44C",
     "U+1D44D", "U+1D44E", "U+1D44F", "U+1D450", "U+1D451", "U+1D452", "U+1D453", "U+1D454",
     "U+1D456", "U+1D457", "U+1D458", "U+1D459", "U+1D45A", "U+1D45B", "U+1D45C", "U+1D45D",
     "U+1D45E", "U+1D45F", "U+1D460", "U+1D461", "U+1D462", "U+1D463", "U+1D464", "U+1D465",
     "U+1D466", "U+1D467", "U+1D468", "U+1D469", "U+1D46A", "U+1D46B", "U+1D46C", "U+1D46D",
     "U+1D46E", "U+1D46F", "U+1D470", "U+1D471", "U+1D472", "U+1D473", "U+1D474", "U+1D475",
     "U+1D476", "U+1D477", "U+1D478", "U+1D479", "U+1D47A", "U+1D47B", "U+1D47C", "U+1D47D",
     "U+1D47E", "U+1D47F", "U+1D480", "U+1D481", "U+1D482", "U+1D483", "U+1D484", "U+1D485",
     "U+1D486", "U+1D487", "U+1D488", "U+1D489", "U+1D48A", "U+1D48B", "U+1D48C", "U+1D48D",
     "U+1D48E", "U+1D48F", "U+1D490", "U+1D491", "U+1D492", "U+1D493", "U+1D494", "U+1D495",
     "U+1D496", "U+1D497", "U+1D498", "U+1D499", "U+1D49A", "U+1D49B", "U+1D49C", "U+1D49E",
     "U+1D49F", "U+1D4A2", "U+1D4A5", "U+1D4A6", "U+1D4A9", "U+1D4AA", "U+1D4AB", "U+1D4AC",
     "U+1D4AE", "U+1D4AF", "U+1D4B0", "U+1D4B1", "U+1D4B2", "U+1D4B3", "U+1D4B4", "U+1D4B5",
     "U+1D4B6", "U+1D4B7", "U+1D4B8", "U+1D4B9", "U+1D4BB", "U+1D4BD", "U+1D4BE", "U+1D4BF",
     "U+1D4C0", "U+1D4C1", "U+1D4C2", "U+1D4C3", "U+1D4C5", "U+1D4C6", "U+1D4C7", "U+1D4C8",
     "U+1D4C9", "U+1D4CA", "U+1D4CB", "U+1D4CC", "U+1D4CD", "U+1D4CE", "U+1D4CF", "U+1D4D0",
     "U+1D4D1", "U+1D4D2", "U+1D4D3", "U+1D4D4", "U+1D4D5", "U+1D4D6", "U+1D4D7", "U+1D4D8",
     "U+1D4D9", "U+1D4DA", "U+1D4DB", "U+1D4DC", "U+1D4DD", "U+1D4DE", "U+1D4DF", "U+1D4E0",
     "U+1D4E1", "U+1D4E2", "U+1D4E3", "U+1D4E4", "U+1D4E5", "U+1D4E6", "U+1D4E7", "U+1D4E8",
     "U+1D4E9", "U+1D4EA", "U+1D4EB", "U+1D4EC", "U+1D4ED", "U+1D4EE", "U+1D4EF", "U+1D4F0",
     "U+1D4F1", "U+1D4F2", "U+1D4F3", "U+1D4F4", "U+1D4F5", "U+1D4F6", "U+1D4F7", "U+1D4F8",
     "U+1D4F9", "U+1D4FA", "U+1D4FB", "U+1D4FC", "U+1D4FD", "U+1D4FE", "U+1D4FF", "U+1D500",
     "U+1D501", "U+1D502", "U+1D503", "U+1D504", "U+1D505", "U+1D507", "U+1D508", "U+1D509",
     "U+1D50A", "U+1D50D", "U+1D50E", "U+1D50F", "U+1D510", "U+1D511", "U+1D512", "U+1D513",
     "U+1D514", "U+1D516", "U+1D517", "U+1D518", "U+1D519", "U+1D51A", "U+1D51B", "U+1D51C",
     "U+1D51E", "U+1D51F", "U+1D520", "U+1D521", "U+1D522", "U+1D523", "U+1D524", "U+1D525",
     "U+1D526", "U+1D527", "U+1D528", "U+1D529", "U+1D52A", "U+1D52B", "U+1D52C", "U+1D52D",
     "U+1D52E", "U+1D52F", "U+1D530", "U+1D531", "U+1D532", "U+1D533", "U+1D534", "U+1D535",
     "U+1D536", "U+1D537", "U+1D538", "U+1D539", "U+1D53B", "U+1D53C", "U+1D53D", "U+1D53E",
     "U+1D540", "U+1D541", "U+1D542", "U+1D543", "U+1D544", "U+1D546", "U+1D54A", "U+1D54B",
     "U+1D54C", "U+1D54D", "U+1D54E", "U+1D54F", "U+1D550", "U+1D552", "U+1D553", "U+1D554",
     "U+1D555", "U+1D556", "U+1D557", "U+1D558", "U+1D559", "U+1D55A", "U+1D55B", "U+1D55C",
     "U+1D55D", "U+1D55E", "U+1D55F", "U+1D560", "U+1D561", "U+1D562", "U+1D563", "U+1D564",
     "U+1D565", "U+1D566", "U+1D567", "U+1D568", "U+1D569", "U+1D56A", "U+1D56B", "U+1D56C",
     "U+1D56D", "U+1D56E", "U+1D56F", "U+1D570", "U+1D571", "U+1D572", "U+1D573", "U+1D574",
     "U+1D575", "U+1D576", "U+1D577", "U+1D578", "U+1D579", "U+1D57A", "U+1D57B", "U+1D57C",
     "U+1D57D", "U+1D57E", "U+1D57F", "U+1D580", "U+1D581", "U+1D582", "U+1D583", "U+1D584",
     "U+1D585", "U+1D586", "U+1D587", "U+1D588", "U+1D589", "U+1D58A", "U+1D58B", "U+1D58C",
     "U+1D58D", "U+1D58E", "U+1D58F", "U+1D590", "U+1D591", "U+1D592", "U+1D593", "U+1D594",
     "U+1D595", "U+1D596", "U+1D597", "U+1D598", "U+1D599", "U+1D59A", "U+1D59B", "U+1D59C",
     "U+1D59D", "U+1D59E", "U+1D59F", "U+1D5A0", "U+1D5A1", "U+1D5A2", "U+1D5A3", "U+1D5A4",
     "U+1D5A5", "U+1D5A6", "U+1D5A7", "U+1D5A8", "U+1D5A9", "U+1D5AA", "U+1D5AB", "U+1D5AC",
     "U+1D5AD", "U+1D5AE", "U+1D5AF", "U+1D5B0", "U+1D5B1", "U+1D5B2", "U+1D5B3", "U+1D5B4",
     "U+1D5B5", "U+1D5B6", "U+1D5B7", "U+1D5B8", "U+1D5B9", "U+1D5BA", "U+1D5BB", "U+1D5BC",
     "U+1D5BD", "U+1D5BE", "U+1D5BF", "U+1D5C0", "U+1D5C1", "U+1D5C2", "U+1D5C3", "U+1D5C4",
     "U+1D5C5", "U+1D5C6", "U+1D5C7", "U+1D5C8", "U+1D5C9", "U+1D5CA", "U+1D5CB", "U+1D5CC",
     "U+1D5CD", "U+1D5CE", "U+1D5CF", "U+1D5D0", "U+1D5D1", "U+1D5D2", "U+1D5D3", "U+1D5D4",
     "U+1D5D5", "U+1D5D6", "U+1D5D7", "U+1D5D8", "U+1D5D9", "U+1D5DA", "U+1D5DB", "U+1D5DC",
     "U+1D5DD", "U+1D5DE", "U+1D5DF", "U+1D5E0", "U+1D5E1", "U+1D5E2", "U+1D5E3", "U+1D5E4",
     "U+1D5E5", "U+1D5E6", "U+1D5E7", "U+1D5E8", "U+1D5E9", "U+1D5EA", "U+1D5EB", "U+1D5EC",
     "U+1D5ED", "U+1D5EE", "U+1D5EF", "U+1D5F0", "U+1D5F1", "U+1D5F2", "U+1D5F3", "U+1D5F4",
     "U+1D5F5", "U+1D5F6", "U+1D5F7", "U+1D5F8", "U+1D5F9", "U+1D5FA", "U+1D5FB", "U+1D5FC",
     "U+1D5FD", "U+1D5FE", "U+1D5FF", "U+1D600", "U+1D601", "U+1D602", "U+1D603", "U+1D604",
     "U+1D605", "U+1D606", "U+1D607", "U+1D608", "U+1D609", "U+1D60A", "U+1D60B", "U+1D60C",
     "U+1D60D", "U+1D60E", "U+1D60F", "U+1D610", "U+1D611", "U+1D612", "U+1D613", "U+1D614",
     "U+1D615", "U+1D616", "U+1D617", "U+1D618", "U+1D619", "U+1D61A", "U+1D61B", "U+1D61C",
     "U+1D61D", "U+1D61E", "U+1D61F", "U+1D620", "U+1D621", "U+1D622", "U+1D623", "U+1D624",
     "U+1D625", "U+1D626", "U+1D627", "U+1D628", "U+1D629", "U+1D62A", "U+1D62B", "U+1D62C",
     "U+1D62D", "U+1D62E", "U+1D62F", "U+1D630", "U+1D631", "U+1D632", "U+1D633", "U+1D634",
     "U+1D635", "U+1D636", "U+1D637", "U+1D638", "U+1D639", "U+1D63A", "U+1D63B", "U+1D63C",
     "U+1D63D", "U+1D63E", "U+1D63F", "U+1D640", "U+1D641", "U+1D642", "U+1D643", "U+1D644",
     "U+1D645", "U+1D646", "U+1D647", "U+1D648", "U+1D649", "U+1D64A", "U+1D64B", "U+1D64C",
     "U+1D64D", "U+1D64E", "U+1D64F", "U+1D650", "U+1D651", "U+1D652", "U+1D653", "U+1D654",
     "U+1D655", "U+1D656", "U+1D657", "U+1D658", "U+1D659", "U+1D65A", "U+1D65B", "U+1D65C",
     "U+1D65D", "U+1D65E", "U+1D65F", "U+1D660", "U+1D661", "U+1D662", "U+1D663", "U+1D664",
     "U+1D665", "U+1D666", "U+1D667", "U+1D668", "U+1D669", "U+1D66A", "U+1D66B", "U+1D66C",
     "U+1D66D", "U+1D66E", "U+1D66F", "U+1D670", "U+1D671", "U+1D672", "U+1D673", "U+1D674",
     "U+1D675", "U+1D676", "U+1D677", "U+1D678", "U+1D679", "U+1D67A", "U+1D67B", "U+1D67C",
     "U+1D67D", "U+1D67E", "U+1D67F", "U+1D680", "U+1D681", "U+1D682", "U+1D683", "U+1D684",
     "U+1D685", "U+1D686", "U+1D687", "U+1D688", "U+1D689", "U+1D68A", "U+1D68B", "U+1D68C",
     "U+1D68D", "U+1D68E", "U+1D68F", "U+1D690", "U+1D691", "U+1D692", "U+1D693", "U+1D694",
     "U+1D695", "U+1D696", "U+1D697", "U+1D698", "U+1D699", "U+1D69A", "U+1D69B", "U+1D69C",
     "U+1D69D", "U+1D69E", "U+1D69F", "U+1D6A0", "U+1D6A1", "U+1D6A2", "U+1D6A3", "U+1D6A4",
     "U+1D6A5", "U+1D6A8", "U+1D6A9", "U+1D6AA", "U+1D6AB", "U+1D6AC", "U+1D6AD", "U+1D6AE",
     "U+1D6AF", "U+1D6B0", "U+1D6B1", "U+1D6B2", "U+1D6B3", "U+1D6B4", "U+1D6B5", "U+1D6B6",
     "U+1D6B7", "U+1D6B8", "U+1D6B9", "U+1D6BA", "U+1D6BB", "U+1D6BC", "U+1D6BD", "U+1D6BE",
     "U+1D6BF", "U+1D6C0", "U+1D6C2", "U+1D6C3", "U+1D6C4", "U+1D6C5", "U+1D6C6", "U+1D6C7",
     "U+1D6C8", "U+1D6C9", "U+1D6CA", "U+1D6CB", "U+1D6CC", "U+1D6CD", "U+1D6CE", "U+1D6CF",
     "U+1D6D0", "U+1D6D1", "U+1D6D2", "U+1D6D3", "U+1D6D4", "U+1D6D5", "U+1D6D6", "U+1D6D7",
     "U+1D6D8", "U+1D6D9", "U+1D6DA", "U+1D6DC", "U+1D6DD", "U+1D6DE", "U+1D6DF", "U+1D6E0",
     "U+1D6E1", "U+1D6E2", "U+1D6E3", "U+1D6E4", "U+1D6E5", "U+1D6E6", "U+1D6E7", "U+1D6E8",
     "U+1D6E9", "U+1D6EA", "U+1D6EB", "U+1D6EC", "U+1D6ED", "U+1D6EE", "U+1D6EF", "U+1D6F0",
     "U+1D6F1", "U+1D6F2", "U+1D6F3", "U+1D6F4", "U+1D6F5", "U+1D6F6", "U+1D6F7", "U+1D6F8",
     "U+1D6F9", "U+1D6FA", "U+1D6FC", "U+1D6FD", "U+1D6FE", "U+1D6FF", "U+1D700", "U+1D701",
     "U+1D702", "U+1D703", "U+1D704", "U+1D705", "U+1D706", "U+1D707", "U+1D708", "U+1D709",
     "U+1D70A", "U+1D70B", "U+1D70C", "U+1D70D", "U+1D70E", "U+1D70F", "U+1D710", "U+1D711",
     "U+1D712", "U+1D713", "U+1D714", "U+1D716", "U+1D717", "U+1D718", "U+1D719", "U+1D71A",
     "U+1D71B", "U+1D71C", "U+1D71D", "U+1D71E", "U+1D71F", "U+1D720", "U+1D721", "U+1D722",
     "U+1D723", "U+1D724", "U+1D725", "U+1D726", "U+1D727", "U+1D728", "U+1D729", "U+1D72A",
     "U+1D72B", "U+1D72C", "U+1D72D", "U+1D72E", "U+1D72F", "U+1D730", "U+1D731", "U+1D732",
     "U+1D733", "U+1D734", "U+1D736", "U+1D737", "U+1D738", "U+1D739", "U+1D73A", "U+1D73B",
     "U+1D73C", "U+1D73D", "U+1D73E", "U+1D73F", "U+1D740", "U+1D741", "U+1D742", "U+1D743",
     "U+1D744", "U+1D745", "U+1D746", "U+1D747", "U+1D748", "U+1D749", "U+1D74A", "U+1D74B",
     "U+1D74C", "U+1D74D", "U+1D74E", "U+1D750", "U+1D751", "U+1D752", "U+1D753", "U+1D754",
     "U+1D755", "U+1D756", "U+1D757", "U+1D758", "U+1D759", "U+1D75A", "U+1D75B", "U+1D75C",
     "U+1D75D", "U+1D75E", "U+1D75F", "U+1D760", "U+1D761", "U+1D762", "U+1D763", "U+1D764",
     "U+1D765", "U+1D766", "U+1D767", "U+1D768", "U+1D769", "U+1D76A", "U+1D76B", "U+1D76C",
     "U+1D76D", "U+1D76E", "U+1D770", "U+1D771", "U+1D772", "U+1D773", "U+1D774", "U+1D775",
     "U+1D776", "U+1D777", "U+1D778", "U+1D779", "U+1D77A", "U+1D77B", "U+1D77C", "U+1D77D",
     "U+1D77E", "U+1D77F", "U+1D780", "U+1D781", "U+1D782", "U+1D783", "U+1D784", "U+1D785",
     "U+1D786", "U+1D787", "U+1D788", "U+1D78A", "U+1D78B", "U+1D78C", "U+1D78D", "U+1D78E",
     "U+1D78F", "U+1D790", "U+1D791", "U+1D792", "U+1D793", "U+1D794", "U+1D795", "U+1D796",
     "U+1D797", "U+1D798", "U+1D799", "U+1D79A", "U+1D79B", "U+1D79C", "U+1D79D", "U+1D79E",
     "U+1D79F", "U+1D7A0", "U+1D7A1", "U+1D7A2", "U+1D7A3", "U+1D7A4", "U+1D7A5", "U+1D7A6",
     "U+1D7A7", "U+1D7A8", "U+1D7AA", "U+1D7AB", "U+1D7AC", "U+1D7AD", "U+1D7AE", "U+1D7AF",
     "U+1D7B0", "U+1D7B1", "U+1D7B2", "U+1D7B3", "U+1D7B4", "U+1D7B5", "U+1D7B6", "U+1D7B7",
     "U+1D7B8", "U+1D7B9", "U+1D7BA", "U+1D7BB", "U+1D7BC", "U+1D7BD", "U+1D7BE", "U+1D7BF",
     "U+1D7C0", "U+1D7C1", "U+1D7C2", "U+1D7C4", "U+1D7C5", "U+1D7C6", "U+1D7C7", "U+1D7C8",
     "U+1D7C9", "U+1D7CA", "U+1D7CB", "U+1DF00", "U+1DF01", "U+1DF02", "U+1DF03", "U+1DF04",
     "U+1DF05", "U+1DF06", "U+1DF07", "U+1DF08", "U+1DF09", "U+1DF0B", "U+1DF0C", "U+1DF0D",
     "U+1DF0E", "U+1DF0F", "U+1DF10", "U+1DF11", "U+1DF12", "U+1DF13", "U+1DF14", "U+1DF15",
     "U+1DF16", "U+1DF17", "U+1DF18", "U+1DF19", "U+1DF1A", "U+1DF1B", "U+1DF1C", "U+1DF1D",
     "U+1DF1E", "U+1E900", "U+1E901", "U+1E902", "U+1E903", "U+1E904", "U+1E905", "U+1E906",
     "U+1E907", "U+1E908", "U+1E909", "U+1E90A", "U+1E90B", "U+1E90C", "U+1E90D", "U+1E90E",
     "U+1E90F", "U+1E910", "U+1E911", "U+1E912", "U+1E913", "U+1E914", "U+1E915", "U+1E916",
     "U+1E917", "U+1E918", "U+1E919", "U+1E91A", "U+1E91B", "U+1E91C", "U+1E91D", "U+1E91E",
     "U+1E91F", "U+1E920", "U+1E921", "U+1E922", "U+1E923", "U+1E924", "U+1E925", "U+1E926",
     "U+1E927", "U+1E928", "U+1E929", "U+1E92A", "U+1E92B", "U+1E92C", "U+1E92D", "U+1E92E",
     "U+1E92F", "U+1E930", "U+1E931", "U+1E932", "U+1E933", "U+1E934", "U+1E935", "U+1E936",
     "U+1E937", "U+1E938", "U+1E939", "U+1E93A", "U+1E93B", "U+1E93C", "U+1E93D", "U+1E93E",
     "U+1E93F", "U+1E940", "U+1E941", "U+1E942", "U+1E943", "U+1F130", "U+1F131", "U+1F132",
     "U+1F133", "U+1F134", "U+1F135", "U+1F136", "U+1F137", "U+1F138", "U+1F139", "U+1F13A",
     "U+1F13B", "U+1F13C", "U+1F13D", "U+1F13E", "U+1F13F", "U+1F140", "U+1F141", "U+1F142",
     "U+1F143", "U+1F144", "U+1F145", "U+1F146", "U+1F147", "U+1F148", "U+1F149", "U+1F150",
     "U+1F151", "U+1F152", "U+1F153", "U+1F154", "U+1F155", "U+1F156", "U+1F157", "U+1F158",
     "U+1F159", "U+1F15A", "U+1F15B", "U+1F15C", "U+1F15D", "U+1F15E", "U+1F15F", "U+1F160",
     "U+1F161", "U+1F162", "U+1F163", "U+1F164", "U+1F165", "U+1F166", "U+1F167", "U+1F168",
     "U+1F169", "U+1F170", "U+1F171", "U+1F172", "U+1F173", "U+1F174", "U+1F175", "U+1F176",
     "U+1F177", "U+1F178", "U+1F179", "U+1F17A", "U+1F17B", "U+1F17C", "U+1F17D", "U+1F17E",
     "U+1F17F", "U+1F180", "U+1F181", "U+1F182", "U+1F183", "U+1F184", "U+1F185", "U+1F186",
     "U+1F187", "U+1F188", "U+1F189"}

\* the case-ignorable characters
CaseIgnorableChars ==
    {"'", ".", ":", "^", "U+0060", "U+00A8", "U+00AD", "U+00AF", "U+00B4", "U+00B7", "U+00B8",
     "U+02B0", "U+02B1", "U+02B2", "U+02B3", "U+02B4", "U+02B5", "U+02B6", "U+02B7", "U+02B8",
     "U+02B9", "U+02BA", "U+02BB", "U+02BC", "U+02BD", "U+02BE", "U+02BF", "U+02C0", "U+02C1",
     "U+02C2", "U+02C3", "U+02C4", "U+02C5", "U+02C6", "U+02C7", "U+02C8", "U+02C9", "U+02CA",
     "U+02CB", "U+02CC", "U+02CD", "U+02CE", "U+02CF", "U+02D0", "U+02D1", "U+02D2", "U+02D3",
     "U+02D4", "U+02D5", "U+02D6", "U+02D7", "U+02D8", "U+02D9", "U+02DA", "U+02DB", "U+02DC",
     "U+02DD", "U+02DE", "U+02DF", "U+02E0", "U+02E1", "U+02E2", "U+02E3", "U+02E4", "U+02E5",
     "U+02E6", "U+02E7", "U+02E8", "U+02E9", "U+02EA", "U+02EB", "U+02EC", "U+02ED", "U+02EE",
     "U+02EF", "U+02F0", "U+02F1", "U+02F2", "U+02F3", "U+02F4", "U+02F5", "U+02F6", "U+02F7",
     "U+02F8", "U+02F9", "U+02FA", "U+02FB", "U+02FC", "U+02FD", "U+02FE", "U+02FF", "U+0300",
     "U+0301", "U+0302", "U+0303", "U+0304", "U+0305", "U+0306", "U+0307", "U+0308", "U+0309",
     "U+030A", "U+030B", "U+030C", "U+030D", "U+030E", "U+030F", "U+0310", "U+0311", "U+0312",
     "U+0313", "U+0314", "U+0315", "U+0316", "U+0317", "U+0318", "U+0319", "U+031A", "U+031B",
     "U+031C", "U+031D", "U+031E", "U+031F", "U+0320", "U+0321", "U+0322", "U+0323", "U+0324",
     "U+0325", "U+0326", "U+0327", "U+0328", "U+0329", "U+032A", "U+032B", "U+032C", "U+032D",
     "U+032E", "U+032F", "U+0330", "U+0331", "U+0332", "U+0333", "U+0334", "U+0335", "U+0336",
     "U+0337", "U+0338", "U+0339", "U+033A", "U+033B", "U+033C", "U+033D", "U+033E", "U+033F",
     "U+0340", "U+0341", "U+0342", "U+0343", "U+0344", "U+0345", "U+0346", "U+0347", "U+0348",
     "U+0349", "U+034A", "U+034B", "U+034C", "U+034D", "U+034E", "U+034F", "U+0350", "U+0351",
     "U+0352", "U+0353", "U+0354", "U+0355", "U+0356", "U+0357", "U+0358", "U+0359", "U+035A",
     "U+035B", "U+035C", "U+035D", "U+035E", "U+035F", "U+0360", "U+0361", "U+0362", "U+0363",
     "U+0364", "U+0365", "U+0366", "U+0367", "U+0368", "U+0369", "U+036A", "U+036B", "U+036C",
     "U+036D", "U+036E", "U+036F", "U+0374", "U+0375", "U+037A", "U+0384", "U+0385", "U+0387",
     "U+0483", "U+0484", "U+0485", "U+0486", "U+0487", "U+0488", "U+0489", "U+0559", "U+055F",
     "U+0591", "U+0592", "U+0593", "U+0594", "U+0595", "U+0596", "U+0597", "U+0598", "U+0599",
     "U+059A", "U+059B", "U+059C", "U+059D", "U+059E", "U+059F", "U+05A0", "U+05A1", "U+05A2",
     "U+05A3", "U+05A4", "U+05A5", "U+05A6", "U+05A7", "U+05A8", "U+05A9", "U+05AA", "U+05AB",
     "U+05AC", "U+05AD", "U+05AE", "U+05AF", "U+05B0", "U+05B1", "U+05B2", "U+05B3", "U+05B4",
     "U+05B5", "U+05B6", "U+05B7", "U+05B8", "U+05B9", "U+05BA", "U+05BB", "U+05BC", "U+05BD",
     "U+05BF", "U+05C1", "U+05C2", "U+05C4", "U+05C5", "U+05C7", "U+05F4", "U+0600", "U+0601",
     "U+0602", "U+0603", "U+0604", "U+0605", "U+0610", "U+0611", "U+0612", "U+0613", "U+0614",
     "U+0615", "U+0616", "U+0617", "U+0618", "U+0619", "U+061A", "U+061C", "U+0640", "U+064B",
     "U+064C", "U+064D", "U+064E", "U+064F", "U+0650", "U+0651", "U+0652", "U+0653", "U+0654",
     "U+0655", "U+0656", "U+0657", "U+0658", "U+0659", "U+065A", "U+065B", "U+065C", "U+065D",
     "U+065E", "U+065F", "U+0670", "U+06D6", "U+06D7", "U+06D8", "U+06D9", "U+06DA", "U+06DB",
     "U+06DC", "U+06DD", "U+06DF", "U+06E0", "U+06E1", "U+06E2", "U+06E3", "U+06E4", "U+06E5",
     "U+06E6", "U+06E7", "U+06E8", "U+06EA", "U+06EB", "U+06EC", "U+06ED", "U+070F", "U+0711",
     "U+0730", "U+0731", "U+0732", "U+0733", "U+0734", "U+0735", "U+0736", "U+0737", "U+0738",
     "U+0739", "U+073A", "U+073B", "U+073C", "U+073D", "U+073E", "U+073F", "U+0740", "U+0741",
     "U+0742", "U+0743", "U+0744", "U+0745", "U+0746", "U+0747", "U+0748", "U+0749", "U+074A",
     "U+07A6", "U+07A7", "U+07A8", "U+07A9", "U+07AA", "U+07AB", "U+07AC", "U+07AD", "U+07AE",
     "U+07AF", "U+07B0", "U+07EB", "U+07EC", "U+07ED", "U+07EE", "U+07EF", "U+07F0", "U+07F1",
     "U+07F2", "U+07F3", "U+07F4", "U+07F5", "U+07FA", "U+07FD", "U+0816", "U+0817", "U+0818",
     "U+0819", "U+081A", "U+081B", "U+081C", "U+081D", "U+081E", "U+081F", "U+0820", "U+0821",
     "U+0822", "U+0823", "U+0824", "U+0825", "U+0826", "U+0827", "U+0828", "U+0829", "U+082A",
     "U+082B", "U+082C", "U+082D", "U+0859", "U+085A", "U+085B", "U+0888", "U+0890", "U+0891",
     "U+0898", "U+0899", "U+089A", "U+089B", "U+089C", "U+089D", "U+089E", "U+089F", "U+08C9",
     "U+08CA", "U+08CB", "U+08CC", "U+08CD", "U+08CE", "U+08CF", "U+08D0", "U+08D1", "U+08D2",
     "U+08D3", "U+08D4", "U+08D5", "U+08D6", "U+08D7", "U+08D8", "U+08D9", "U+08DA", "U+08DB",
     "U+08DC", "U+08DD", "U+08DE", "U+08DF", "U+08E0", "U+08E1", "U+08E2", "U+08E3", "U+08E4",
     "U+08E5", "U+08E6", "U+08E7", "U+08E8", "U+08E9", "U+08EA", "U+08EB", "U+08EC", "U+08ED",
     "U+08EE", "U+08EF", "U+08F0", "U+08F1", "U+08F2", "U+08F3", "U+08F4", "U+08F5", "U+08F6",
     "U+08F7", "U+08F8", "U+08F9", "U+08FA", "U+08FB", "U+08FC", "U+08FD", "U+08FE", "U+08FF",
     "U+0900", "U+0901", "U+0902", "U+093A", "U+093C", "U+0941", "U+0942", "U+0943", "U+0944",
     "U+0945", "U+0946", "U+0947", "U+0948", "U+094D", "U+0951", "U+0952", "U+0953", "U+0954",
     "U+0955", "U+0956", "U+0957", "U+0962", "U+0963", "U+0971", "U+0981", "U+09BC", "U+09C1",
     "U+09C2", "U+09C3", "U+09C4", "U+09CD", "U+09E2", "U+09E3", "U+09FE", "U+0A01", "U+0A02",
     "U+0A3C", "U+0A41", "U+0A42", "U+0A47", "U+0A48", "U+0A4B", "U+0A4C", "U+0A4D", "U+0A51",
     "U+0A70", "U+0A71", "U+0A75", "U+0A81", "U+0A82", "U+0ABC", "U+0AC1", "U+0AC2", "U+0AC3",
     "U+0AC4", "U+0AC5", "U+0AC7", "U+0AC8", "U+0ACD", "U+0AE2", "U+0AE3", "U+0AFA", "U+0AFB",
     "U+0AFC", "U+0AFD", "U+0AFE", "U+0AFF", "U+0B01", "U+0B3C", "U+0B3F", "U+0B41", "U+0B42",
     "U+0B43", "U+0B44", "U+0B4D", "U+0B55", "U+0B56", "U+0B62", "U+0B63", "U+0B82", "U+0BC0",
     "U+0BCD", "U+0C00", "U+0C04", "U+0C3C", "U+0C3E", "U+0C3F", "U+0C40", "U+0C46", "U+0C47",
     "U+0C48", "U+0C4A", "U+0C4B", "U+0C4C", "U+0C4D", "U+0C55", "U+0C56", "U+0C62", "U+0C63",
     "U+0C81", "U+0CBC", "U+0CBF", "U+0CC6", "U+0CCC", "U+0CCD", "U+0CE2", "U+0CE3", "U+0D00",
     "U+0D01", "U+0D3B", "U+0D3C", "U+0D41", "U+0D42", "U+0D43", "U+0D44", "U+0D4D", "U+0D62",
     "U+0D63", "U+0D81", "U+0DCA", "U+0DD2", "U+0DD3", "U+0DD4", "U+0DD6", "U+0E31", "U+0E34",
     "U+0E35", "U+0E36", "U+0E37", "U+0E38", "U+0E39", "U+0E3A", "U+0E46", "U+0E47", "U+0E48",
     "U+0E49", "U+0E4A", "U+0E4B", "U+0E4C", "U+0E4D", "U+0E4E", "U+0EB1", "U+0EB4", "U+0EB5",
     "U+0EB6", "U+0EB7", "U+0EB8", "U+0EB9", "U+0EBA", "U+0EBB", "U+0EBC", "U+0EC6", "U+0EC8",
     "U+0EC9", "U+0ECA", "U+0ECB", "U+0ECC", "U+0ECD", "U+0F18", "U+0F19", "U+0F35", "U+0F37",
     "U+0F39", "U+0F71", "U+0F72", "U+0F73", "U+0F74", "U+0F75", "U+0F76", "U+0F77", "U+0F78",
     "U+0F79", "U+0F7A", "U+0F7B", "U+0F7C", "U+0F7D", "U+0F7E", "U+0F80", "U+0F81", "U+0F82",
     "U+0F83", "U+0F84", "U+0F86", "U+0F87", "U+0F8D", "U+0F8E", "U+0F8F", "U+0F90", "U+0F91",
     "U+0F92", "U+0F93", "U+0F94", "U+0F95", "U+0F96", "U+0F97", "U+0F99", "U+0F9A", "U+0F9B",
     "U+0F9C", "U+0F9D", "U+0F9E", "U+0F9F", "U+0FA0", "U+0FA1", "U+0FA2", "U+0FA3", "U+0FA4",
     "U+0FA5", "U+0FA6", "U+0FA7", "U+0FA8", "U+0FA9", "U+0FAA", "U+0FAB", "U+0FAC", "U+0FAD",
     "U+0FAE", "U+0FAF", "U+0FB0", "U+0FB1", "U+0FB2", "U+0FB3", "U+0FB4", "U+0FB5", "U+0FB6",
     "U+0FB7", "U+0FB8", "U+0FB9", "U+0FBA", "U+0FBB", "U+0FBC", "U+0FC6", "U+102D", "U+102E",
     "U+102F", "U+1030", "U+1032", "U+1033", "U+1034", "U+1035", "U+1036", "U+1037", "U+1039",
     "U+103A", "U+103D", "U+103E", "U+1058", "U+1059", "U+105E", "U+105F", "U+1060", "U+1071",
     "U+1072", "U+1073", "U+1074", "U+1082", "U+1085", "U+1086", "U+108D", "U+109D", "U+10FC",
     "U+135D", "U+135E", "U+135F", "U+1712", "U+1713", "U+1714", "U+1732", "U+1733", "U+1752",
     "U+1753", "U+1772", "U+1773", "U+17B4", "U+17B5", "U+17B7", "U+17B8", "U+17B9", "U+17BA",
     "U+17BB", "U+17BC", "U+17BD", "U+17C6", "U+17C9", "U+17CA", "U+17CB", "U+17CC", "U+17CD",
     "U+17CE", "U+17CF", "U+17D0", "U+17D1", "U+17D2", "U+17D3", "U+17D7", "U+17DD", "U+180B",
     "U+180C", "U+180D", "U+180E", "U+180F", "U+1843", "U+1885", "U+1886", "U+18A9", "U+1920",
     "U+1921", "U+1922", "U+1927", "U+1928", "U+1932", "U+1939", "U+193A", "U+193B", "U+1A17",
     "U+1A18", "U+1A1B", "U+1A56", "U+1A58", "U+1A59", "U+1A5A", "U+1A5B", "U+1A5C", "U+1A5D",
     "U+1A5E", "U+1A60", "U+1A62", "U+1A65", "U+1A66", "U+1A67", "U+1A68", "U+1A69", "U+1A6A",
     "U+1A6B", "U+1A6C", "U+1A73", "U+1A74", "U+1A75", "U+1A76", "U+1A77", "U+1A78", "U+1A79",
     "U+1A7A", "U+1A7B", "U+1A7C", "U+1A7F", "U+1AA7", "U+1AB0", "U+1AB1", "U+1AB2", "U+1AB3",
     "U+1AB4", "U+1AB5", "U+1AB6", "U+1AB7", "U+1AB8", "U+1AB9", "U+1ABA", "U+1ABB", "U+1ABC",
     "U+1ABD", "U+1ABE", "U+1ABF", "U+1AC0", "U+1AC1", "U+1AC2", "U+1AC3", "U+1AC4", "U+1AC5",
     "U+1AC6", "U+1AC7", "U+1AC8", "U+1AC9", "U+1ACA", "U+1ACB", "U+1ACC", "U+1ACD", "U+1ACE",
     "U+1B00", "U+1B01", "U+1B02", "U+1B03", "U+1B34", "U+1B36", "U+1B37", "U+1B38", "U+1B39",
     "U+1B3A", "U+1B3C", "U+1B42", "U+1B6B", "U+1B6C", "U+1B6D", "U+1B6E", "U+1B6F", "U+1B70",
     "U+1B71", "U+1B72", "U+1B73", "U+1B80", "U+1B81", "U+1BA2", "U+1BA3", "U+1BA4", "U+1BA5",
     "U+1BA8", "U+1BA9", "U+1BAB", "U+1BAC", "U+1BAD", "U+1BE6", "U+1BE8", "U+1BE9", "U+1BED",
     "U+1BEF", "U+1BF0", "U+1BF1", "U+1C2C", "U+1C2D", "U+1C2E", "U+1C2F", "U+1C30", "U+1C31",
     "U+1C32", "U+1C33", "U+1C36", "U+1C37", "U+1C78", "U+1C79", "U+1C7A", "U+1C7B", "U+1C7C",
     "U+1C7D", "U+1CD0", "U+1CD1", "U+1CD2", "U+1CD4", "U+1CD5", "U+1CD6", "U+1CD7", "U+1CD8",
     "U+1CD9", "U+1CDA", "U+1CDB", "U+1CDC", "U+1CDD", "U+1CDE", "U+1CDF", "U+1CE0", "U+1CE2",
     "U+1CE3", "U+1CE4", "U+1CE5", "U+1CE6", "U+1CE7", "U+1CE8", "U+1CED", "U+1CF4", "U+1CF8",
     "U+1CF9", "U+1D2C", "U+1D2D", "U+1D2E", "U+1D2F", "U+1D30", "U+1D31", "U+1D32", "U+1D33",
     "U+1D34", "U+1D35", "U+1D36", "U+1D37", "U+1D38", "U+1D39", "U+1D3A", "U+1D3B", "U+1D3C",
     "U+1D3D", "U+1D3E", "U+1D3F", "U+1D40", "U+1D41", "U+1D42", "U+1D43", "U+1D44", "U+1D45",
     "U+1D46", "U+1D47", "U+1D48", "U+1D49", "U+1D4A", "U+1D4B", "U+1D4C", "U+1D4D", "U+1D4E",
     "U+1D4F", "U+1D50", "U+1D51", "U+1D52", "U+1D53", "U+1D54", "U+1D55", "U+1D56", "U+1D57",
     "U+1D58", "U+1D59", "U+1D5A", "U+1D5B", "U+1D5C", "U+1D5D", "U+1D5E", "U+1D5F", "U+1D60",
     "U+1D61", "U+1D62", "U+1D63", "U+1D64", "U+1D65", "U+1D66", "U+1D67", "U+1D68", "U+1D69",
     "U+1D6A", "U+1D78", "U+1D9B", "U+1D9C", "U+1D9D", "U+1D9E", "U+1D9F", "U+1DA0", "U+1DA1",
     "U+1DA2", "U+1DA3", "U+1DA4", "U+1DA5", "U+1DA6", "U+1DA7", "U+1DA8", "U+1DA9", "U+1DAA",
     "U+1DAB", "U+1DAC", "U+1DAD", "U+1DAE", "U+1DAF", "U+1DB0", "U+1DB1", "U+1DB2", "U+1DB3",
     "U+1DB4", "U+1DB5", "U+1DB6", "U+1DB7", "U+1DB8", "U+1DB9", "U+1DBA", "U+1DBB", "U+1DBC",
     "U+1DBD", "U+1DBE", "U+1DBF", "U+1DC0", "U+1DC1", "U+1DC2", "U+1DC3", "U+1DC4", "U+1DC5",
     "U+1DC6", "U+1DC7", "U+1DC8", "U+1DC9", "U+1DCA", "U+1DCB", "U+1DCC", "U+1DCD", "U+1DCE",
     "U+1DCF", "U+1DD0", "U+1DD1", "U+1DD2", "U+1DD3", "U+1DD4", "U+1DD5", "U+1DD6", "U+1DD7",
     "U+1DD8", "U+1DD9", "U+1DDA", "U+1DDB", "U+1DDC", "U+1DDD", "U+1DDE", "U+1DDF", "U+1DE0",
     "U+1DE1", "U+1DE2", "U+1DE3", "U+1DE4", "U+1DE5", "U+1DE6", "U+1DE7", "U+1DE8", "U+1DE9",
     "U+1DEA", "U+1DEB", "U+1DEC", "U+1DED", "U+1DEE", "U+1DEF", "U+1DF0", "U+1DF1", "U+1DF2",
     "U+1DF3", "U+1DF4", "U+1DF5", "U+1DF6", "U+1DF7", "U+1DF8", "U+1DF9", "U+1DFA", "U+1DFB",
     "U+1DFC", "U+1DFD", "U+1DFE", "U+1DFF", "U+1FBD", "U+1FBF", "U+1FC0", "U+1FC1", "U+1FCD",
     "U+1FCE", "U+1FCF", "U+1FDD", "U+1FDE", "U+1FDF", "U+1FED", "U+1FEE", "U+1FEF", "U+1FFD",
     "U+1FFE", "U+200B", "U+200C", "U+200D", "U+200E", "U+200F", "U+2018", "U+2019", "U+2024",
     "U+2027", "U+202A", "U+202B", "U+202C", "U+202D", "U+202E", "U+2060", "U+2061", "U+2062",
     "U+2063", "U+2064", "U+2066", "U+2067", "U+2068", "U+2069", "U+206A", "U+206B", "U+206C",
     "U+206D", "U+206E", "U+206F", "U+2071", "U+207F", "U+2090", "U+2091", "U+2092", "U+2093",
     "U+2094", "U+2095", "U+2096", "U+2097", "U+2098", "U+2099", "U+209A", "U+209B", "U+209C",
     "U+20D0", "U+20D1", "U+20D2", "U+20D3", "U+20D4", "U+20D5", "U+20D6", "U+20D7", "U+20D8",
     "U+20D9", "U+20DA", "U+20DB", "U+20DC", "U+20DD", "U+20DE", "U+20DF", "U+20E0", "U+20E1",
     "U+20E2", "U+20E3", "U+20E4", "U+20E5", "U+20E6", "U+20E7", "U+20E8", "U+20E9", "U+20EA",
     "U+20EB", "U+20EC", "U+20ED", "U+20EE", "U+20EF", "U+20F0", "U+2C7C", "U+2C7D", "U+2CEF",
     "U+2CF0", "U+2CF1", "U+2D6F", "U+2D7F", "U+2DE0", "U+2DE1", "U+2DE2", "U+2DE3", "U+2DE4",
     "U+2DE5", "U+2DE6", "U+2DE7", "U+2DE8", "U+2DE9", "U+2DEA", "U+2DEB", "U+2DEC", "U+2DED",
     "U+2DEE", "U+2DEF", "U+2DF0", "U+2DF1", "U+2DF2", "U+2DF3", "U+2DF4", "U+2DF5", "U+2DF6",
     "U+2DF7", "U+2DF8", "U+2DF9", "U+2DFA", "U+2DFB", "U+2DFC", "U+2DFD", "U+2DFE", "U+2DFF",
     "U+2E2F", "U+3005", "U+302A", "U+302B", "U+302C", "U+302D", "U+3031", "U+3032", "U+3033",
     "U+3034", "U+3035", "U+303B", "U+3099", "U+309A", "U+309B", "U+309C", "U+309D", "U+309E",
     "U+30FC", "U+30FD", "U+30FE", "U+A015", "U+A4F8", "U+A4F9", "U+A4FA", "U+A4FB", "U+A4FC",
     "U+A4FD", "U+A60C", "U+A66F", "U+A670", "U+A671", "U+A672", "U+A674", "U+A675", "U+A676",
     "U+A677", "U+A678", "U+A679", "U+A67A", "U+A67B", "U+A67C", "U+A67D", "U+A67F", "U+A69C",
     "U+A69D", "U+A69E", "U+A69F", "U+A6F0", "U+A6F1", "U+A700", "U+A701", "U+A702", "U+A703",
     "U+A704", "U+A705", "U+A706", "U+A707", "U+A708", "U+A709", "U+A70A", "U+A70B", "U+A70C",
     "U+A70D", "U+A70E", "U+A70F", "U+A710", "U+A711", "U+A712", "U+A713", "U+A714", "U+A715",
     "U+A716", "U+A717", "U+A718", "U+A719", "U+A71A", "U+A71B", "U+A71C", "U+A71D", "U+A71E",
     "U+A71F", "U+A720", "U+A721", "U+A770", "U+A788", "U+A789", "U+A78A", "U+A7F2", "U+A7F3",
     "U+A7F4", "U+A7F8", "U+A7F9", "U+A802", "U+A806", "U+A80B", "U+A825", "U+A826", "U+A82C",
     "U+A8C4", "U+A8C5", "U+A8E0", "U+A8E1", "U+A8E2", "U+A8E3", "U+A8E4", "U+A8E5", "U+A8E6",
     "U+A8E7", "U+A8E8", "U+A8E9", "U+A8EA", "U+A8EB", "U+A8EC", "U+A8ED", "U+A8EE", "U+A8EF",
     "U+A8F0", "U+A8F1", "U+A8FF", "U+A926", "U+A927", "U+A928", "U+A929", "U+A92A", "U+A92B",
     "U+A92C", "U+A92D", "U+A947", "U+A948", "U+A949", "U+A94A", "U+A94B", "U+A94C", "U+A94D",
     "U+A94E", "U+A94F", "U+A950", "U+A951", "U+A980", "U+A981", "U+A982", "U+A9B3", "U+A9B6",
     "U+A9B7", "U+A9B8", "U+A9B9", "U+A9BC", "U+A9BD", "U+A9CF", "U+A9E5", "U+A9E6", "U+AA29",
     "U+AA2A", "U+AA2B", "U+AA2C", "U+AA2D", "U+AA2E", "U+AA31", "U+AA32", "U+AA35", "U+AA36",
     "U+AA43", "U+AA4C", "U+AA70", "U+AA7C", "U+AAB0", "U+AAB2", "U+AAB3", "U+AAB4", "U+AAB7",
     "U+AAB8", "U+AABE", "U+AABF", "U+AAC1", "U+AADD", "U+AAEC", "U+AAED", "U+AAF3", "U+AAF4",
     "U+AAF6", "U+AB5B", "U+AB5C", "U+AB5D", "U+AB5E", "U+AB5F", "U+AB69", "U+AB6A", "U+AB6B",
     "U+ABE5", "U+ABE8", "U+ABED", "U+FB1E", "U+FBB2", "U+FBB3", "U+FBB4", "U+FBB5", "U+FBB6",
     "U+FBB7", "U+FBB8", "U+FBB9", "U+FBBA", "U+FBBB", "U+FBBC", "U+FBBD", "U+FBBE", "U+FBBF",
     "U+FBC0", "U+FBC1", "U+FBC2", "U+FE00", "U+FE01", "U+FE02", "U+FE03", "U+FE04", "U+FE05",
     "U+FE06", "U+FE07", "U+FE08", "U+FE09", "U+FE0A", "U+FE0B", "U+FE0C", "U+FE0D", "U+FE0E",
     "U+FE0F", "U+FE13", "U+FE20", "U+FE21", "U+FE22", "U+FE23", "U+FE24", "U+FE25", "U+FE26",
     "U+FE27", "U+FE28", "U+FE29", "U+FE2A", "U+FE2B", "U+FE2C", "U+FE2D", "U+FE2E", "U+FE2F",
     "U+FE52", "U+FE55", "U+FEFF", "U+FF07", "U+FF0E", "U+FF1A", "U+FF3E", "U+FF40", "U+FF70",
     "U+FF9E", "U+FF9F", "U+FFE3", "U+FFF9", "U+FFFA", "U+FFFB", "U+101FD", "U+102E0",
     "U+10376", "U+10377", "U+10378", "U+10379", "U+1037A", "U+10780", "U+10781", "U+10782",
     "U+10783", "U+10784", "U+10785", "U+10787", "U+10788", "U+10789", "U+1078A", "U+1078B",
     "U+1078C", "U+1078D", "U+1078E", "U+1078F", "U+10790", "U+10791", "U+10792", "U+10793",
     "U+10794", "U+10795", "U+10796", "U+10797", "U+10798", "U+10799", "U+1079A", "U+1079B",
     "U+1079C", "U+1079D", "U+1079E", "U+1079F", "U+107A0", "U+107A1", "U+107A2", "U+107A3",
     "U+107A4", "U+107A5", "U+107A6", "U+107A7", "U+107A8", "U+107A9", "U+107AA", "U+107AB",
     "U+107AC", "U+107AD", "U+107AE", "U+107AF", "U+107B0", "U+107B2", "U+107B3", "U+107B4",
     "U+107B5", "U+107B6", "U+107B7", "U+107B8", "U+107B9", "U+107BA", "U+10A01", "U+10A02",
     "U+10A03", "U+10A05", "U+10A06", "U+10A0C", "U+10A0D", "U+10A0E", "U+10A0F", "U+10A38",
     "U+10A39", "U+10A3A", "U+10A3F", "U+10AE5", "U+10AE6", "U+10D24", "U+10D25", "U+10D26",
     "U+10D27", "U+10EAB", "U+10EAC", "U+10F46", "U+10F47", "U+10F48", "U+10F49", "U+10F4A",
     "U+10F4B", "U+10F4C", "U+10F4D", "U+10F4E", "U+10F4F", "U+10F50", "U+10F82", "U+10F83",
     "U+10F84", "U+10F85", "U+11001", "U+11038", "U+11039", "U+1103A", "U+1103B", "U+1103C",
     "U+1103D", "U+1103E", "U+1103F", "U+11040", "U+11041", "U+11042", "U+11043", "U+11044",
     "U+11045", "U+11046", "U+11070", "U+11073", "U+11074", "U+1107F", "U+11080", "U+11081",
     "U+110B3", "U+110B4", "U+110B5", "U+110B6", "U+110B9", "U+110BA", "U+110BD", "U+110C2",
     "U+110CD", "U+11100", "U+11101", "U+11102", "U+11127", "U+11128", "U+11129", "U+1112A",
     "U+1112B", "U+1112D", "U+1112E", "U+1112F", "U+11130", "U+11131", "U+11132", "U+11133",
     "U+11134", "U+11173", "U+11180", "U+11181", "U+111B6", "U+111B7", "U+111B8", "U+111B9",
     "U+111BA", "U+111BB", "U+111BC", "U+111BD", "U+111BE", "U+111C9", "U+111CA", "U+111CB",
     "U+111CC", "U+111CF", "U+1122F", "U+11230", "U+11231", "U+11234", "U+11236", "U+11237",
     "U+1123E", "U+112DF", "U+112E3", "U+112E4", "U+112E5", "U+112E6", "U+112E7", "U+112E8",
     "U+112E9", "U+112EA", "U+11300", "U+11301", "U+1133B", "U+1133C", "U+11340", "U+11366",
     "U+11367", "U+11368", "U+11369", "U+1136A", "U+1136B", "U+1136C", "U+11370", "U+11371",
     "U+11372", "U+11373", "U+11374", "U+11438", "U+11439", "U+1143A", "U+1143B", "U+1143C",
     "U+1143D", "U+1143E", "U+1143F", "U+11442", "U+11443", "U+11444", "U+11446", "U+1145E",
     "U+114B3", "U+114B4", "U+114B5", "U+114B6", "U+114B7", "U+114B8", "U+114BA", "U+114BF",
     "U+114C0", "U+114C2", "U+114C3", "U+115B2", "U+115B3", "U+115B4", "U+115B5", "U+115BC",
     "U+115BD", "U+115BF", "U+115C0", "U+115DC", "U+115DD", "U+11633", "U+11634", "U+11635",
     "U+11636", "U+11637", "U+11638", "U+11639", "U+1163A", "U+1163D", "U+1163F", "U+11640",
     "U+116AB", "U+116AD", "U+116B0", "U+116B1", "U+116B2", "U+116B3", "U+116B4", "U+116B5",
     "U+116B7", "U+1171D", "U+1171E", "U+1171F", "U+11722", "U+11723", "U+11724", "U+11725",
     "U+11727", "U+11728", "U+11729", "U+1172A", "U+1172B", "U+1182F", "U+11830", "U+11831",
     "U+11832", "U+11833", "U+11834", "U+11835", "U+11836", "U+11837", "U+11839", "U+1183A",
     "U+1193B", "U+1193C", "U+1193E", "U+11943", "U+119D4", "U+119D5", "U+119D6", "U+119D7",
     "U+119DA", "U+119DB", "U+119E0", "U+11A01", "U+11A02", "U+11A03", "U+11A04", "U+11A05",
     "U+11A06", "U+11A07", "U+11A08", "U+11A09", "U+11A0A", "U+11A33", "U+11A34", "U+11A35",
     "U+11A36", "U+11A37", "U+11A38", "U+11A3B", "U+11A3C", "U+11A3D", "U+11A3E", "U+11A47",
     "U+11A51", "U+11A52", "U+11A53", "U+11A54", "U+11A55", "U+11A56", "U+11A59", "U+11A5A",
     "U+11A5B", "U+11A8A", "U+11A8B", "U+11A8C", "U+11A8D", "U+11A8E", "U+11A8F", "U+11A90",
     "U+11A91", "U+11A92", "U+11A93", "U+11A94", "U+11A95", "U+11A96", "U+11A98", "U+11A99",
     "U+11C30", "U+11C31", "U+11C32", "U+11C33", "U+11C34", "U+11C35", "U+11C36", "U+11C38",
     "U+11C39", "U+11C3A", "U+11C3B", "U+11C3C", "U+11C3D", "U+11C3F", "U+11C92", "U+11C93",
     "U+11C94", "U+11C95", "U+11C96", "U+11C97", "U+11C98", "U+11C99", "U+11C9A", "U+11C9B",
     "U+11C9C", "U+11C9D", "U+11C9E", "U+11C9F", "U+11CA0", "U+11CA1", "U+11CA2", "U+11CA3",
     "U+11CA4", "U+11CA5", "U+11CA6", "U+11CA7", "U+11CAA", "U+11CAB", "U+11CAC", "U+11CAD",
     "U+11CAE", "U+11CAF", "U+11CB0", "U+11CB2", "U+11CB3", "U+11CB5", "U+11CB6", "U+11D31",
     "U+11D32", "U+11D33", "U+11D34", "U+11D35", "U+11D36", "U+11D3A", "U+11D3C", "U+11D3D",
     "U+11D3F", "U+11D40", "U+11D41", "U+11D42", "U+11D43", "U+11D44", "U+11D45", "U+11D47",
     "U+11D90", "U+11D91", "U+11D95", "U+11D97", "U+11EF3", "U+11EF4", "U+13430", "U+13431",
     "U+13432", "U+13433", "U+13434", "U+13435", "U+13436", "U+13437", "U+13438", "U+16AF0",
     "U+16AF1", "U+16AF2", "U+16AF3", "U+16AF4", "U+16B30", "U+16B31", "U+16B32", "U+16B33",
     "U+16B34", "U+16B35", "U+16B36", "U+16B40", "U+16B41", "U+16B42", "U+16B43", "U+16F4F",
     "U+16F8F", "U+16F90", "U+16F91", "U+16F92", "U+16F93", "U+16F94", "U+16F95", "U+16F96",
     "U+16F97", "U+16F98", "U+16F99", "U+16F9A", "U+16F9B", "U+16F9C", "U+16F9D", "U+16F9E",
     "U+16F9F", "U+16FE0", "U+16FE1", "U+16FE3", "U+16FE4", "U+1AFF0", "U+1AFF1", "U+1AFF2",
     "U+1AFF3", "U+1AFF5", "U+1AFF6", "U+1AFF7", "U+1AFF8", "U+1AFF9", "U+1AFFA", "U+1AFFB",
     "U+1AFFD", "U+1AFFE", "U+1BC9D", "U+1BC9E", "U+1BCA0", "U+1BCA1", "U+1BCA2", "U+1BCA3",
     "U+1CF00", "U+1CF01", "U+1CF02", "U+1CF03", "U+1CF04", "U+1CF05", "U+1CF06", "U+1CF07",
     "U+1CF08", "U+1CF09", "U+1CF0A", "U+1CF0B", "U+1CF0C", "U+1CF0D", "U+1CF0E", "U+1CF0F",
     "U+1CF10", "U+1CF11", "U+1CF12", "U+1CF13", "U+1CF14", "U+1CF15", "U+1CF16", "U+1CF17",
     "U+1CF18", "U+1CF19", "U+1CF1A", "U+1CF1B", "U+1CF1C", "U+1CF1D", "U+1CF1E", "U+1CF1F",
     "U+1CF20", "U+1CF21", "U+1CF22", "U+1CF23", "U+1CF24", "U+1CF25", "U+1CF26", "U+1CF27",
     "U+1CF28", "U+1CF29", "U+1CF2A", "U+1CF2B", "U+1CF2C", "U+1CF2D", "U+1CF30", "U+1CF31",
     "U+1CF32", "U+1CF33", "U+1CF34", "U+1CF35", "U+1CF36", "U+1CF37", "U+1CF38", "U+1CF39",
     "U+1CF3A", "U+1CF3B", "U+1CF3C", "U+1CF3D", "U+1CF3E", "U+1CF3F", "U+1CF40", "U+1CF41",
     "U+1CF42", "U+1CF43", "U+1CF44", "U+1CF45", "U+1CF46", "U+1D167", "U+1D168", "U+1D169",
     "U+1D173", "U+1D174", "U+1D175", "U+1D176", "U+1D177", "U+1D178", "U+1D179", "U+1D17A",
     "U+1D17B", "U+1D17C", "U+1D17D", "U+1D17E", "U+1D17F", "U+1D180", "U+1D181", "U+1D182",
     "U+1D185", "U+1D186", "U+1D187", "U+1D188", "U+1D189", "U+1D18A", "U+1D18B", "U+1D1AA",
     "U+1D1AB", "U+1D1AC", "U+1D1AD", "U+1D242", "U+1D243", "U+1D244", "U+1DA00", "U+1DA01",
     "U+1DA02", "U+1DA03", "U+1DA04", "U+1DA05", "U+1DA06", "U+1DA07", "U+1DA08", "U+1DA09",
     "U+1DA0A", "U+1DA0B", "U+1DA0C", "U+1DA0D", "U+1DA0E", "U+1DA0F", "U+1DA10", "U+1DA11",
     "U+1DA12", "U+1DA13", "U+1DA14", "U+1DA15", "U+1DA16", "U+1DA17", "U+1DA18", "U+1DA19",
     "U+1DA1A", "U+1DA1B", "U+1DA1C", "U+1DA1D", "U+1DA1E", "U+1DA1F", "U+1DA20", "U+1DA21",
     "U+1DA22", "U+1DA23", "U+1DA24", "U+1DA25", "U+1DA26", "U+1DA27", "U+1DA28", "U+1DA29",
     "U+1DA2A", "U+1DA2B", "U+1DA2C", "U+1DA2D", "U+1DA2E", "U+1DA2F", "U+1DA30", "U+1DA31",
     "U+1DA32", "U+1DA33", "U+1DA34", "U+1DA35", "U+1DA36", "U+1DA3B", "U+1DA3C", "U+1DA3D",
     "U+1DA3E", "U+1DA3F", "U+1DA40", "U+1DA41", "U+1DA42", "U+1DA43", "U+1DA44", "U+1DA45",
     "U+1DA46", "U+1DA47", "U+1DA48", "U+1DA49", "U+1DA4A", "U+1DA4B", "U+1DA4C", "U+1DA4D",
     "U+1DA4E", "U+1DA4F", "U+1DA50", "U+1DA51", "U+1DA52", "U+1DA53", "U+1DA54", "U+1DA55",
     "U+1DA56", "U+1DA57", "U+1DA58", "U+1DA59", "U+1DA5A", "U+1DA5B", "U+1DA5C", "U+1DA5D",
     "U+1DA5E", "U+1DA5F", "U+1DA60", "U+1DA61", "U+1DA62", "U+1DA63", "U+1DA64", "U+1DA65",
     "U+1DA66", "U+1DA67", "U+1DA68", "U+1DA69", "U+1DA6A", "U+1DA6B", "U+1DA6C", "U+1DA75",
     "U+1DA84", "U+1DA9B", "U+1DA9C", "U+1DA9D", "U+1DA9E", "U+1DA9F", "U+1DAA1", "U+1DAA2",
     "U+1DAA3", "U+1DAA4", "U+1DAA5", "U+1DAA6", "U+1DAA7", "U+1DAA8", "U+1DAA9", "U+1DAAA",
     "U+1DAAB", "U+1DAAC", "U+1DAAD", "U+1DAAE", "U+1DAAF", "U+1E000", "U+1E001", "U+1E002",
     "U+1E003", "U+1E004", "U+1E005", "U+1E006", "U+1E008", "U+1E009", "U+1E00A", "U+1E00B",
     "U+1E00C", "U+1E00D", "U+1E00E", "U+1E00F", "U+1E010", "U+1E011", "U+1E012", "U+1E013",
     "U+1E014", "U+1E015", "U+1E016", "U+1E017", "U+1E018", "U+1E01B", "U+1E01C", "U+1E01D",
     "U+1E01E", "U+1E01F", "U+1E020", "U+1E021", "U+1E023", "U+1E024", "U+1E026", "U+1E027",
     "U+1E028", "U+1E029", "U+1E02A", "U+1E130", "U+1E131", "U+1E132", "U+1E133", "U+1E134",
     "U+1E135", "U+1E136", "U+1E137", "U+1E138", "U+1E139", "U+1E13A", "U+1E13B", "U+1E13C",
     "U+1E13D", "U+1E2AE", "U+1E2EC", "U+1E2ED", "U+1E2EE", "U+1E2EF", "U+1E8D0", "U+1E8D1",
     "U+1E8D2", "U+1E8D3", "U+1E8D4", "U+1E8D5", "U+1E8D6", "U+1E944", "U+1E945", "U+1E946",
     "U+1E947", "U+1E948", "U+1E949", "U+1E94A", "U+1E94B", "U+1F3FB", "U+1F3FC", "U+1F3FD",
     "U+1F3FE", "U+1F3FF", "U+E0001", "U+E0020", "U+E0021", "U+E0022", "U+E0023", "U+E0024",
     "U+E0025", "U+E0026", "U+E0027", "U+E0028", "U+E0029", "U+E002A", "U+E002B", "U+E002C",
     "U+E002D", "U+E002E", "U+E002F", "U+E0030", "U+E0031", "U+E0032", "U+E0033", "U+E0034",
     "U+E0035", "U+E0036", "U+E0037", "U+E0038", "U+E0039", "U+E003A", "U+E003B", "U+E003C",
     "U+E003D", "U+E003E", "U+E003F", "U+E0040", "U+E0041", "U+E0042", "U+E0043", "U+E0044",
     "U+E0045", "U+E0046", "U+E0047", "U+E0048", "U+E0049", "U+E004A", "U+E004B", "U+E004C",
     "U+E004D", "U+E004E", "U+E004F", "U+E0050", "U+E0051", "U+E0052", "U+E0053", "U+E0054",
     "U+E0055", "U+E0056", "U+E0057", "U+E0058", "U+E0059", "U+E005A", "U+E005B", "U+E005C",
     "U+E005D", "U+E005E", "U+E005F", "U+E0060", "U+E0061", "U+E0062", "U+E0063", "U+E0064",
     "U+E0065", "U+E0066", "U+E0067", "U+E0068", "U+E0069", "U+E006A", "U+E006B", "U+E006C",
     "U+E006D", "U+E006E", "U+E006F", "U+E0070", "U+E0071", "U+E0072", "U+E0073", "U+E0074",
     "U+E0075", "U+E0076", "U+E0077", "U+E0078", "U+E0079", "U+E007A", "U+E007B", "U+E007C",
     "U+E007D", "U+E007E", "U+E007F", "U+E0100", "U+E0101", "U+E0102", "U+E0103", "U+E0104",
     "U+E0105", "U+E0106", "U+E0107", "U+E0108", "U+E0109", "U+E010A", "U+E010B", "U+E010C",
     "U+E010D", "U+E010E", "U+E010F", "U+E0110", "U+E0111", "U+E0112", "U+E0113", "U+E0114",
     "U+E0115", "U+E0116", "U+E0117", "U+E0118", "U+E0119", "U+E011A", "U+E011B", "U+E011C",
     "U+E011D", "U+E011E", "U+E011F", "U+E0120", "U+E0121", "U+E0122", "U+E0123", "U+E0124",
     "U+E0125", "U+E0126", "U+E0127", "U+E0128", "U+E0129", "U+E012A", "U+E012B", "U+E012C",
     "U+E012D", "U+E012E", "U+E012F", "U+E0130", "U+E0131", "U+E0132", "U+E0133", "U+E0134",
     "U+E0135", "U+E0136", "U+E0137", "U+E0138", "U+E0139", "U+E013A", "U+E013B", "U+E013C",
     "U+E013D", "U+E013E", "U+E013F", "U+E0140", "U+E0141", "U+E0142", "U+E0143", "U+E0144",
     "U+E0145", "U+E0146", "U+E0147", "U+E0148", "U+E0149", "U+E014A", "U+E014B", "U+E014C",
     "U+E014D", "U+E014E", "U+E014F", "U+E0150", "U+E0151", "U+E0152", "U+E0153", "U+E0154",
     "U+E0155", "U+E0156", "U+E0157", "U+E0158", "U+E0159", "U+E015A", "U+E015B", "U+E015C",
     "U+E015D", "U+E015E", "U+E015F", "U+E0160", "U+E0161", "U+E0162", "U+E0163", "U+E0164",
     "U+E0165", "U+E0166", "U+E0167", "U+E0168", "U+E0169", "U+E016A", "U+E016B", "U+E016C",
     "U+E016D", "U+E016E", "U+E016F", "U+E0170", "U+E0171", "U+E0172", "U+E0173", "U+E0174",
     "U+E0175", "U+E0176", "U+E0177", "U+E0178", "U+E0179", "U+E017A", "U+E017B", "U+E017C",
     "U+E017D", "U+E017E", "U+E017F", "U+E0180", "U+E0181", "U+E0182", "U+E0183", "U+E0184",
     "U+E0185", "U+E0186", "U+E0187", "U+E0188", "U+E0189", "U+E018A", "U+E018B", "U+E018C",
     "U+E018D", "U+E018E", "U+E018F", "U+E0190", "U+E0191", "U+E0192", "U+E0193", "U+E0194",
     "U+E0195", "U+E0196", "U+E0197", "U+E0198", "U+E0199", "U+E019A", "U+E019B", "U+E019C",
     "U+E019D", "U+E019E", "U+E019F", "U+E01A0", "U+E01A1", "U+E01A2", "U+E01A3", "U+E01A4",
     "U+E01A5", "U+E01A6", "U+E01A7", "U+E01A8", "U+E01A9", "U+E01AA", "U+E01AB", "U+E01AC",
     "U+E01AD", "U+E01AE", "U+E01AF", "U+E01B0", "U+E01B1", "U+E01B2", "U+E01B3", "U+E01B4",
     "U+E01B5", "U+E01B6", "U+E01B7", "U+E01B8", "U+E01B9", "U+E01BA", "U+E01BB", "U+E01BC",
     "U+E01BD", "U+E01BE", "U+E01BF", "U+E01C0", "U+E01C1", "U+E01C2", "U+E01C3", "U+E01C4",
     "U+E01C5", "U+E01C6", "U+E01C7", "U+E01C8", "U+E01C9", "U+E01CA", "U+E01CB", "U+E01CC",
     "U+E01CD", "U+E01CE", "U+E01CF", "U+E01D0", "U+E01D1", "U+E01D2", "U+E01D3", "U+E01D4",
     "U+E01D5", "U+E01D6", "U+E01D7", "U+E01D8", "U+E01D9", "U+E01DA", "U+E01DB", "U+E01DC",
     "U+E01DD", "U+E01DE", "U+E01DF", "U+E01E0", "U+E01E1", "U+E01E2", "U+E01E3", "U+E01E4",
     "U+E01E5", "U+E01E6", "U+E01E7", "U+E01E8", "U+E01E9", "U+E01EA", "U+E01EB", "U+E01EC",
     "U+E01ED", "U+E01EE", "U+E01EF"}

\* capital sigma at position i of s closes a word: a cased character before it and none
\* after it, case-ignorable characters skipped on both sides
FinalSigma(s, i) ==
    /\ \E j \in 1..(i - 1) :
          /\ s[j] \in CasedChars
          /\ \A k \in (j + 1)..(i - 1) : s[k] \in CaseIgnorableChars
    /\ ~\E j \in (i + 1)..Len(s) :
          /\ s[j] \in CasedChars
          /\ \A k \in (i + 1)..(j - 1) : s[k] \in CaseIgnorableChars

\* the lower-case form of the character at position i of s, a string of one or two characters
LowerAt(s, i) ==
    IF s[i] = "U+03A3" THEN <<IF FinalSigma(s, i) THEN "U+03C2" ELSE "U+03C3">>
    ELSE IF s[i] = "U+0130" THEN <<"i", "U+0307">>
    ELSE <<LowerChar(s[i])>>

RECURSIVE LowerFrom(_, _)
LowerFrom(s, i) == IF i > Len(s) THEN <<>> ELSE LowerAt(s, i) \o LowerFrom(s, i + 1)

\* str.lower()
LowerStr(s) ==
    IF \E i \in 1..Len(s) : s[i] = "U+0130"
    THEN LowerFrom(s, 1)
    ELSE [i \in 1..Len(s) |-> LowerAt(s, i)[1]]

\* sub in s
Contains(sub, s) ==
    \E i \in 0..(Len(s) - Len(sub)) : \A j \in 1..Len(sub) : s[i + j] = sub[j]

\* s.find(c) + 1: the first position of character c in s, 0 when there is none
FindChar(s, c) ==
    IF \E i \in 1..Len(s) : s[i] = c
    THEN CHOOSE i \in 1..Len(s) : s[i] = c /\ \A j \in 1..(i - 1) : s[j] # c
    ELSE 0

(***************************************************************************)
(* Characters and code points                                              *)
(***************************************************************************)
\* the ASCII characters in the order of their codes
AsciiOrder ==
    <<"U+0000", "U+0001", "U+0002", "U+0003", "U+0004", "U+0005", "U+0006",
      "U+0007", "U+0008", "\t", "\n", "U+000B", "\f", "\r", "U+000E", "U+000F",
      "U+0010", "U+0011", "U+0012", "U+0013", "U+0014", "U+0015", "U+0016",
      "U+0017", "U+0018", "U+0019", "U+001A", "U+001B", "U+001C", "U+001D",
      "U+001E", "U+001F">>
    \o <<" ", "!", "\"", "#", "$", "%", "&", "'", "(", ")", "*", "+", ",", "-", ".", "/">>
    \o Digits \o <<":", ";", "<", "=", ">", "?", "@">> \o UpperLetters
    \o <<"[", "\\", "]", "^", "_", "U+0060">> \o LowerLetters
    \o <<"{", "|", "}", "~", "U+007F">>

HexUpper == Digits \o SubSeq(UpperLetters, 1, 6)

\* int(t, 16) of a string of upper-case hex digits
RECURSIVE HexNumber(_)
HexNumber(t) ==
    IF Len(t) = 0 THEN 0
    ELSE 16 * HexNumber(SubSeq(t, 1, Len(t) - 1))
         + (CHOOSE i \in 1..16 : HexUpper[i] = SubSeq(t, Len(t), Len(t))) - 1

\* ord(c): a character stands for itself or, as "U+" and the hex digits of its
\* code, for a character that is not printable ASCII
Ord(c) ==
    IF Len(c) > 1 THEN HexNumber(SubSeq(c, 3, Len(c)))
    ELSE (CHOOSE i \in 1..Len(AsciiOrder) : AsciiOrder[i] = c) - 1

\* '%X' % n, with zeros in front up to the width
RECURSIVE HexText(_, _)
HexText(n, width) ==
    IF n = 0 /\ width <= 0 THEN ""
    ELSE HexText(n \div 16, width - 1) \o HexUpper[(n % 16) + 1]

\* chr(n)
Chr(n) == IF n < 128 THEN AsciiOrder[n + 1] ELSE "U+" \o HexText(n, 4)

\* the code points of a string, and the string of code points
CodePoints(s) == [i \in 1..Len(s) |-> Ord(s[i])]

Chars(cps) == [i \in 1..Len(cps) |-> Chr(cps[i])]

\* a character of ASCII
IsAsciiChar(c) == Len(c) = 1 \/ Ord(c) < 128

\* requests' unicode_is_ascii(s): s.encode('ascii') does not raise
unicode_is_ascii(s) == \A i \in 1..Len(s) : IsAsciiChar(s[i])

\* the UTF-8 bytes of a code point (a surrogate as 'surrogatepass' writes it)
Utf8Bytes(c) ==
    CASE c < 128 -> <<c>>
      [] c >= 128 /\ c < 2048 -> <<192 + (c \div 64), 128 + (c % 64)>>
      [] c >= 2048 /\ c < 65536 ->
           <<224 + (c \div 4096), 128 + ((c \div 64) % 64), 128 + (c % 64)>>
      [] OTHER ->
           <<240 + (c \div 262144), 128 + ((c \div 4096) % 64),
             128 + ((c \div 64) % 64), 128 + (c % 64)>>

\* the bytes of the characters lo..hi of t
RECURSIVE Utf8EncodeRun(_, _, _)
Utf8EncodeRun(t, lo, hi) ==
    IF lo > hi THEN <<>>
    ELSE IF lo = hi THEN Utf8Bytes(t[lo])
    ELSE Utf8EncodeRun(t, lo, (lo + hi) \div 2)
         \o Utf8EncodeRun(t, ((lo + hi) \div 2) + 1, hi)

Utf8Encode(t) == Utf8EncodeRun(t, 1, Len(t))

\* a surrogate, which str.encode('utf-8') refuses
IsSurrogate(c) == Ord(c) >= 55296 /\ Ord(c) <= 57343

(***************************************************************************)
(* urllib.parse: urlsplit, urlparse, urlunparse, urljoin                    *)
(***************************************************************************)
SchemeChars == Letters \cup Range(Digits) \cup {"+", "-", "."}

NetlocDelims == {"/", "?", "#"}

HexDigits == Range(Digits) \cup {"a", "b", "c", "d", "e", "f", "A", "B", "C", "D", "E", "F"}

\* the ASCII control characters; those without an escape of their own are
\* written by their code point, as every character beyond ASCII is
AsciiControls ==
    {"\t", "\n", "\f", "\r",
     "U+0000", "U+0001", "U+0002", "U+0003", "U+0004", "U+0005", "U+0006",
     "U+0007", "U+0008", "U+000B", "U+000E", "U+000F", "U+0010", "U+0011",
     "U+0012", "U+0013", "U+0014", "U+0015", "U+0016", "U+0017", "U+0018",
     "U+0019", "U+001A", "U+001B", "U+001C", "U+001D", "U+001E", "U+001F",
     "U+007F"}

\* _WHATWG_C0_CONTROL_OR_SPACE of urllib.parse: the characters U+0000 to U+0020
C0ControlOrSpace == (AsciiControls \ {"U+007F"}) \cup {" "}

\* the characters str.isspace() holds of, which str.strip() without argument
\* removes
UnicodeSpace ==
    {" ", "\t", "\n", "\f", "\r", "U+000B", "U+001C", "U+001D", "U+001E", "U+001F",
     "U+0085", "U+00A0", "U+1680", "U+2000", "U+2001", "U+2002", "U+2003",
     "U+2004", "U+2005", "U+2006", "U+2007", "U+2008", "U+2009", "U+200A",
     "U+2028", "U+2029", "U+202F", "U+205F", "U+3000"}

\* _UNSAFE_URL_BYTES_TO_REMOVE: removed by urlsplit wherever they are
UnsafeUrlChars == {"\t", "\r", "\n"}

\* what stands for the ValueError a function of urllib.parse raises, where the
\* model has a string for its result
ValueError == <<"ValueError">>

\* s.lstrip(cs)
LStrip(s, cs) ==
    IF \A i \in 1..Len(s) : s[i] \in cs THEN <<>>
    ELSE SubSeq(s, CHOOSE i \in 1..Len(s) : s[i] \notin cs /\ \A j \in 1..(i - 1) : s[j] \in cs,
                Len(s))

\* the first position from `from` on where s has a character of cs, Len(s) + 1
\* when it has none
FirstOf(s, cs, from) ==
    IF \E j \in from..Len(s) : s[j] \in cs
    THEN CHOOSE j \in from..Len(s) : s[j] \in cs /\ \A k \in from..(j - 1) : s[k] \notin cs
    ELSE Len(s) + 1

\* s.split(c)
Split(s, c) ==
    LET cuts == {i \in 1..Len(s) : s[i] = c}
        n == Cardinality(cuts)
        Cut(k) == IF k = 0 THEN 0
                  ELSE IF k = n + 1 THEN Len(s) + 1
                  ELSE CHOOSE i \in cuts : Cardinality({j \in cuts : j <= i}) = k
    IN  [k \in 1..(n + 1) |-> SubSeq(s, Cut(k - 1) + 1, Cut(k) - 1)]

\* c.join(parts)
RECURSIVE JoinRun(_, _, _, _)
JoinRun(parts, c, lo, hi) ==
    IF lo > hi THEN <<>>
    ELSE IF lo = hi THEN parts[lo]
    ELSE JoinRun(parts, c, lo, (lo + hi) \div 2)
         \o <<c>> \o JoinRun(parts, c, ((lo + hi) \div 2) + 1, hi)

Join(parts, c) == JoinRun(parts, c, 1, Len(parts))

\* s.partition(c)[0] and s.partition(c)[2]
PartBefore(s, c) == IF FindChar(s, c) = 0 THEN s ELSE SubSeq(s, 1, FindChar(s, c) - 1)
PartAfter(s, c) == IF FindChar(s, c) = 0 THEN <<>> ELSE SubSeq(s, FindChar(s, c) + 1, Len(s))

\* the value of a string of decimal digits
RECURSIVE DecimalValue(_)
DecimalValue(s) ==
    IF s = <<>> THEN 0
    ELSE 10 * DecimalValue(SubSeq(s, 1, Len(s) - 1))
         + ((CHOOSE i \in 1..10 : Digits[i] = s[Len(s)]) - 1)

\* the octets of an IPv4 address as ipaddress takes them: four, decimal, of at
\* most three digits, without leading zero, none above 255
StrictOctets(octets) ==
    /\ Len(octets) = 4
    /\ \A k \in 1..4 :
          /\ octets[k] # <<>>
          /\ \A i \in 1..Len(octets[k]) : octets[k][i] \in Range(Digits)
          /\ Len(octets[k]) <= 3
          /\ Len(octets[k]) > 1 => octets[k][1] # "0"
          /\ DecimalValue(octets[k]) <= 255

\* the octets as urllib3's IPV4_PAT takes them: [0-9]{1,3} four times
LooseOctets(octets) ==
    /\ Len(octets) = 4
    /\ \A k \in 1..4 :
          /\ Len(octets[k]) \in 1..3
          /\ \A i \in 1..Len(octets[k]) : octets[k][i] \in Range(Digits)

\* ipaddress.IPv4Address(s) does not raise
IsIPv4(s) == StrictOctets(Split(s, "."))

\* one to four hex digits
Hextet(p) ==
    /\ p # <<>>
    /\ Len(p) <= 4
    /\ \A i \in 1..Len(p) : p[i] \in HexDigits

\* the groups around the '::' found at parts[skip] are hextets, and the '::'
\* stands for at least one of the eight
SkippedOk(parts, skip) ==
    LET n == Len(parts)
        hi == IF parts[1] = <<>> THEN skip - 2 ELSE skip - 1
        lo == IF parts[n] = <<>> THEN n - skip - 1 ELSE n - skip
    IN  /\ parts[1] = <<>> => skip = 2
        /\ parts[n] = <<>> => skip = n - 1
        /\ 8 - (hi + lo) >= 1
        /\ \A i \in (1..hi) \cup ((n - lo + 1)..n) : Hextet(parts[i])

\* the groups of an IPv6 address, an IPv4 tail counted as two: eight hextets,
\* or fewer and one '::'
HextetsOk(parts) ==
    LET n == Len(parts)
        skips == {i \in 2..(n - 1) : parts[i] = <<>>}
    IN  /\ n <= 9
        /\ Cardinality(skips) <= 1
        /\ IF skips # {}
           THEN SkippedOk(parts, CHOOSE i \in skips : TRUE)
           ELSE n = 8 /\ \A i \in 1..n : Hextet(parts[i])

\* raw, the address split at its colons, is well formed; the last group may be
\* a dotted quad
GroupsOk(raw, strict) ==
    LET last == raw[Len(raw)]
        tail4 == \E i \in 1..Len(last) : last[i] = "."
    IN  /\ Len(raw) >= 3
        /\ tail4 => IF strict THEN IsIPv4(last) ELSE LooseOctets(Split(last, "."))
        /\ HextetsOk(IF tail4
                     THEN SubSeq(raw, 1, Len(raw) - 1) \o << <<"0">>, <<"0">> >>
                     ELSE raw)

\* the address part of an IPv6 literal is well formed: hextets of one to four
\* hex digits, at most one '::' standing for at least one of the eight, and
\* possibly a dotted-quad tail for the last two (ipaddress takes the tail by
\* IsIPv4; with strict = FALSE it is urllib3's [0-9]{1,3} four times)
IPv6Groups(addr, strict) ==
    /\ addr # <<>>
    /\ GroupsOk(Split(addr, ":"), strict)

\* ipaddress.IPv6Address(s) does not raise
IsIPv6(s) ==
    /\ FindChar(s, "%") > 0 => (PartAfter(s, "%") # <<>> /\ FindChar(PartAfter(s, "%"), "%") = 0)
    /\ IPv6Groups(PartBefore(s, "%"), TRUE)

\* _check_bracketed_host(hostname) does not raise: an IPvFuture or an IPv6
\* address
BracketedHostOk(h) ==
    IF h # <<>> /\ h[1] = "v"
    THEN /\ FindChar(h, ".") > 2
         /\ \A i \in 2..(FindChar(h, ".") - 1) : h[i] \in HexDigits
         /\ FindChar(h, ".") < Len(h)
         /\ \A i \in (FindChar(h, ".") + 1)..Len(h) : h[i] # "\n"
    ELSE IsIPv6(h)

\* the characters beyond ASCII whose NFKC form (unicodedata.normalize) holds one
\* of / ? # @ : and that form
NfkcSpecials ==
    <<<<"U+2047", <<"?", "?">>>>, <<"U+2048", <<"?", "!">>>>, <<"U+2049", <<"!", "?">>>>,
      <<"U+2100", <<"a", "/", "c">>>>, <<"U+2101", <<"a", "/", "s">>>>,
      <<"U+2105", <<"c", "/", "o">>>>, <<"U+2106", <<"c", "/", "u">>>>,
      <<"U+2A74", <<":", ":", "=">>>>, <<"U+FE13", <<":">>>>, <<"U+FE16", <<"?">>>>,
      <<"U+FE55", <<":">>>>, <<"U+FE56", <<"?">>>>, <<"U+FE5F", <<"#">>>>, <<"U+FE6B", <<"@">>>>,
      <<"U+FF03", <<"#">>>>, <<"U+FF0F", <<"/">>>>, <<"U+FF1A", <<":">>>>, <<"U+FF1F", <<"?">>>>,
      <<"U+FF20", <<"@">>>>>>

\* _checknetloc(netloc) raises ValueError: the netloc is not ASCII, and its
\* NFKC form, taken without the '@', ':', '#' and '?' it has, holds one of
\* / ? # @ :, which a character of NfkcSpecials brings in
checknetloc_raises(netloc) ==
    /\ ~unicode_is_ascii(netloc)
    /\ \E i \in 1..Len(netloc) :
          \E k \in 1..Len(NfkcSpecials) :
              /\ NfkcSpecials[k][1] = netloc[i]
              /\ \E j \in 1..Len(NfkcSpecials[k][2]) :
                    NfkcSpecials[k][2][j] \in {"/", "?", "#", "@", ":"}

\* urlsplit raises ValueError on this netloc: a bracket without its partner,
\* a bracketed host that is no IPv6 or IPvFuture address, or a character that
\* _checknetloc refuses
NetlocRaises(netloc) ==
    \/ checknetloc_raises(netloc)
    \/ FindChar(netloc, "[") > 0 /\ FindChar(netloc, "]") = 0
    \/ FindChar(netloc, "]") > 0 /\ FindChar(netloc, "[") = 0
    \/ /\ FindChar(netloc, "[") > 0
       /\ FindChar(netloc, "]") > 0
       /\ ~BracketedHostOk(PartBefore(PartAfter(netloc, "["), "]"))

\* urlsplit, the scheme and the netloc taken off: what is left, split at '#'
\* and '?'
SplitQuery(scheme, rest, netloc, tail) ==
    [raised |-> NetlocRaises(netloc),
     scheme |-> scheme,
     rest |-> rest,
     netloc |-> netloc,
     path |-> PartBefore(PartBefore(tail, "#"), "?"),
     query |-> PartAfter(PartBefore(tail, "#"), "?"),
     fragment |-> PartAfter(tail, "#")]

\* urlsplit: what follows the scheme starts with '//'
HasNetloc(rest) == Len(rest) >= 2 /\ rest[1] = "/" /\ rest[2] = "/"

\* urlsplit, the scheme taken off: the netloc after '//' up to the first of
\* '/', '?' and '#'
SplitNetloc(scheme, rest) ==
    SplitQuery(scheme, rest,
               IF HasNetloc(rest)
               THEN SubSeq(rest, 3, FirstOf(rest, NetlocDelims, 3) - 1) ELSE <<>>,
               IF HasNetloc(rest)
               THEN SubSeq(rest, FirstOf(rest, NetlocDelims, 3), Len(rest)) ELSE rest)

\* urlsplit: what precedes the first ':' is a scheme, a letter followed by
\* scheme characters
HasScheme(u) ==
    /\ FindChar(u, ":") > 1
    /\ u[1] \in Letters
    /\ \A j \in 1..(FindChar(u, ":") - 1) : u[j] \in SchemeChars

\* urlsplit on the cleaned url: the scheme lower-cased, and the rest
SplitScheme(u) ==
    SplitNetloc(IF HasScheme(u) THEN LowerStr(SubSeq(u, 1, FindChar(u, ":") - 1)) ELSE <<>>,
                IF HasScheme(u) THEN SubSeq(u, FindChar(u, ":") + 1, Len(u)) ELSE u)

\* urlsplit(url): the five components, or raised
urlsplit(url) ==
    SplitScheme(SelectSeq(LStrip(url, C0ControlOrSpace), LAMBDA c : c \notin UnsafeUrlChars))

\* one component of urlsplit(url), ValueError when urlsplit raises
Component(s, name) == IF s.raised THEN ValueError ELSE s[name]

\* what follows the scheme and its colon
AfterScheme(url) == Component(urlsplit(url), "rest")

\* urlparse(url).netloc
Netloc(url) == Component(urlsplit(url), "netloc")

\* urlparse(url).scheme
SchemeOf(url) == Component(urlsplit(url), "scheme")

\* urlsplit(url).path
PathOf(url) == Component(urlsplit(url), "path")

\* uses_relative
UsesRelative ==
    {<<>>, <<"f", "t", "p">>, <<"h", "t", "t", "p">>, <<"g", "o", "p", "h",
     "e", "r">>, <<"n", "n", "t", "p">>, <<"i", "m", "a", "p">>, <<"w", "a",
     "i", "s">>, <<"f", "i", "l", "e">>, <<"h", "t", "t", "p", "s">>, <<"s",
     "h", "t", "t", "p">>, <<"m", "m", "s">>, <<"p", "r", "o", "s", "p", "e",
     "r", "o">>, <<"r", "t", "s", "p">>, <<"r", "t", "s", "p", "s">>, <<"r",
     "t", "s", "p", "u">>, <<"s", "f", "t", "p">>, <<"s", "v", "n">>, <<"s",
     "v", "n", "+", "s", "s", "h">>, <<"w", "s">>, <<"w", "s", "s">>}

\* uses_netloc
UsesNetloc ==
    {<<>>, <<"f", "t", "p">>, <<"h", "t", "t", "p">>, <<"g", "o", "p", "h",
     "e", "r">>, <<"n", "n", "t", "p">>, <<"t", "e", "l", "n", "e", "t">>,
     <<"i", "m", "a", "p">>, <<"w", "a", "i", "s">>, <<"f", "i", "l", "e">>,
     <<"m", "m", "s">>, <<"h", "t", "t", "p", "s">>, <<"s", "h", "t", "t",
     "p">>, <<"s", "n", "e", "w", "s">>, <<"p", "r", "o", "s", "p", "e", "r",
     "o">>, <<"r", "t", "s", "p">>, <<"r", "t", "s", "p", "s">>, <<"r", "t",
     "s", "p", "u">>, <<"r", "s", "y", "n", "c">>, <<"s", "v", "n">>, <<"s",
     "v", "n", "+", "s", "s", "h">>, <<"s", "f", "t", "p">>, <<"n", "f",
     "s">>, <<"g", "i", "t">>, <<"g", "i", "t", "+", "s", "s", "h">>, <<"w",
     "s">>, <<"w", "s", "s">>}

\* uses_params
UsesParams ==
    {<<>>, <<"f", "t", "p">>, <<"h", "d", "l">>, <<"p", "r", "o", "s", "p",
     "e", "r", "o">>, <<"h", "t", "t", "p">>, <<"i", "m", "a", "p">>, <<"h",
     "t", "t", "p", "s">>, <<"s", "h", "t", "t", "p">>, <<"r", "t", "s",
     "p">>, <<"r", "t", "s", "p", "s">>, <<"r", "t", "s", "p", "u">>, <<"s",
     "i", "p">>, <<"s", "i", "p", "s">>, <<"m", "m", "s">>, <<"s", "f", "t",
     "p">>, <<"t", "e", "l">>}

\* _splitparams: the path cut at the first ';' of its last segment
SplitParams(s, scheme) ==
    LET slash == IF \E i \in 1..Len(s.path) : s.path[i] = "/"
                 THEN CHOOSE i \in 1..Len(s.path) :
                         s.path[i] = "/" /\ \A j \in (i + 1)..Len(s.path) : s.path[j] # "/"
                 ELSE 0
        semi == FirstOf(s.path, {";"}, slash + 1)
        split == scheme \in UsesParams /\ semi <= Len(s.path)
    IN  [raised |-> s.raised, scheme |-> scheme, netloc |-> s.netloc,
         path |-> IF split THEN SubSeq(s.path, 1, semi - 1) ELSE s.path,
         params |-> IF split THEN SubSeq(s.path, semi + 1, Len(s.path)) ELSE <<>>,
         query |-> s.query, fragment |-> s.fragment]

\* the result of urlsplit with the default scheme where the URL has none
WithScheme(s, default) ==
    SplitParams(s, IF s.scheme = <<>> THEN default ELSE s.scheme)

\* urlparse(url, scheme): urlsplit with the default scheme, and the params
\* split off the last segment of the path
urlparse(url, default) == WithScheme(urlsplit(url), default)

\* urlunsplit, from the netloc and the path on
Unsplit(scheme, authority, netloc, p, query, fragment) ==
    (IF scheme # <<>> THEN scheme \o <<":">> ELSE <<>>)
    \o (IF authority
        THEN <<"/", "/">> \o netloc \o (IF p # <<>> /\ p[1] # "/" THEN <<"/">> ELSE <<>>)
        ELSE <<>>)
    \o p
    \o (IF query # <<>> THEN <<"?">> \o query ELSE <<>>)
    \o (IF fragment # <<>> THEN <<"#">> \o fragment ELSE <<>>)

\* urlunsplit with the path and its params
UnsplitPath(scheme, netloc, p, query, fragment) ==
    Unsplit(scheme,
            netloc # <<>>
                \/ (scheme # <<>> /\ scheme \in UsesNetloc /\ Prefix(p, 2) # <<"/", "/">>),
            netloc, p, query, fragment)

\* urlunparse((scheme, netloc, path, params, query, fragment))
urlunparse(scheme, netloc, path, params, query, fragment) ==
    UnsplitPath(scheme, netloc,
                IF params # <<>> THEN path \o <<";">> \o params ELSE path,
                query, fragment)

\* the loop of urljoin over the segments: '..' drops the last segment kept,
\* '.' is dropped
RECURSIVE ResolveDots(_, _)
ResolveDots(segments, resolved) ==
    IF segments = <<>> THEN resolved
    ELSE IF Head(segments) = <<".", ".">>
    THEN ResolveDots(Tail(segments),
                     IF resolved = <<>> THEN resolved
                     ELSE SubSeq(resolved, 1, Len(resolved) - 1))
    ELSE IF Head(segments) = <<".">> THEN ResolveDots(Tail(segments), resolved)
    ELSE ResolveDots(Tail(segments), Append(resolved, Head(segments)))

\* urljoin: base_parts, the segments of the base path without the last
\* non-empty one
BaseParts(bp) == IF bp[Len(bp)] # <<>> THEN SubSeq(bp, 1, Len(bp) - 1) ELSE bp

\* urljoin: segments[1:-1] = filter(None, segments[1:-1])
FilterInner(joined) ==
    IF Len(joined) <= 2 THEN joined
    ELSE <<joined[1]>>
         \o SelectSeq(SubSeq(joined, 2, Len(joined) - 1), LAMBDA x : x # <<>>)
         \o <<joined[Len(joined)]>>

\* urljoin: the segments resolved, a last '.' or '..' leaving a trailing slash
ResolvedPath(segments) ==
    IF segments[Len(segments)] \in {<<".">>, <<".", ".">>}
    THEN Append(ResolveDots(segments, <<>>), <<>>)
    ELSE ResolveDots(segments, <<>>)

\* '/'.join(resolved_path) or '/'
OrRoot(p) == IF p = <<>> THEN <<"/">> ELSE p

\* urljoin: the path of the reference merged with the path of the base
JoinedPath(bpath, rpath) ==
    OrRoot(Join(ResolvedPath(IF Prefix(rpath, 1) = <<"/">>
                             THEN Split(rpath, "/")
                             ELSE FilterInner(BaseParts(Split(bpath, "/"))
                                              \o Split(rpath, "/"))),
                "/"))

\* urljoin, base and reference parsed
JoinParsed(url, b, r) ==
    IF b.raised \/ r.raised THEN ValueError
    ELSE IF r.scheme # b.scheme \/ r.scheme \notin UsesRelative THEN url
    ELSE IF r.scheme \in UsesNetloc /\ r.netloc # <<>>
    THEN urlunparse(r.scheme, r.netloc, r.path, r.params, r.query, r.fragment)
    ELSE IF r.path = <<>> /\ r.params = <<>>
    THEN urlunparse(r.scheme,
                    IF r.scheme \in UsesNetloc THEN b.netloc ELSE r.netloc,
                    b.path, b.params,
                    IF r.query = <<>> THEN b.query ELSE r.query,
                    r.fragment)
    ELSE urlunparse(r.scheme,
                    IF r.scheme \in UsesNetloc THEN b.netloc ELSE r.netloc,
                    JoinedPath(b.path, r.path), r.params, r.query, r.fragment)

\* urljoin, the base parsed: the reference is parsed with the scheme of the base
JoinBase(url, b) == JoinParsed(url, b, urlparse(url, b.scheme))

\* urljoin(base, url); ValueError when urlparse raises on one of them
urljoin(base, url) ==
    IF base = <<>> THEN url
    ELSE IF url = <<>> THEN base
    ELSE JoinBase(url, urlparse(base, <<>>))

(***************************************************************************)
(* String literals of the program                                          *)
(***************************************************************************)
S_login == <<"l","o","g","i","n">>
S_auth == <<"a","u","t","h">>
S_sso == <<"s","s","o">>
S_saml == <<"s","a","m","l">>
S_oauth == <<"o","a","u","t","h">>
S_token == <<"t","o","k","e","n">>
S_authorize == <<"a","u","t","h","o","r","i","z","e">>
S_acs == <<"a","c","s">>
S_idp == <<"i","d","p">>
S_samlrequest == <<"s","a","m","l","r","e","q","u","e","s","t">>
S_samlresponse == <<"s","a","m","l","r","e","s","p","o","n","s","e">>
S_relaystate == <<"r","e","l","a","y","s","t","a","t","e">>
S_SAMLResponse == <<"S","A","M","L","R","e","s","p","o","n","s","e">>
S_SAMLRequest == <<"S","A","M","L","R","e","q","u","e","s","t">>
S_RelayState == <<"R","e","l","a","y","S","t","a","t","e">>
S_samlToken == <<"s","a","m","l","T","o","k","e","n">>
S_samltoken == <<"s","a","m","l","t","o","k","e","n">>
S_SAMLTOKEN == <<"S","A","M","L","T","O","K","E","N">>
S_user == <<"u","s","e","r">>
S_email == <<"e","m","a","i","l">>
S_pass == <<"p","a","s","s">>
S_post == <<"p","o","s","t">>
S_get == <<"g","e","t">>
S_GET == <<"G","E","T">>
S_POST == <<"P","O","S","T">>

\* analyze_entries: keywords
Keywords ==
    <<S_login, S_auth, S_sso, S_saml, S_oauth, S_token, S_authorize, S_acs, S_idp>>

\* analyze_entries: the parameter names that mark an exchange
SamlParamNames == {S_samlrequest, S_samlresponse, S_relaystate}

(***************************************************************************)
(* dict, in insertion order: a sequence of [k, v] with distinct keys       *)
(***************************************************************************)
DictHas(d, k) == \E i \in 1..Len(d) : d[i].k = k

DictGet(d, k) == d[CHOOSE i \in 1..Len(d) : d[i].k = k].v

\* d[k] = v
DictSet(d, k, v) ==
    IF DictHas(d, k)
    THEN [i \in 1..Len(d) |-> IF d[i].k = k THEN [k |-> k, v |-> v] ELSE d[i]]
    ELSE Append(d, [k |-> k, v |-> v])

(***************************************************************************)
(* HAR documents                                                           *)
(*                                                                         *)
(* A raw entry holds what analyze_entries reads of it.  A parameter name   *)
(* is absent (p.get('name','') gives ''), null (gives None) or a str.      *)
(* postData is absent/null ("absent"), an object ("dict") or, in a         *)
(* malformed archive, a JSON string: "emptytext" for '', "text" for any    *)
(* other.  The value of a parameter or header is absent, null or a str.    *)
(***************************************************************************)
NameAbsent == [k |-> "absent", s |-> <<>>]
NameNull == [k |-> "null", s |-> <<>>]
NameStr(s) == [k |-> "str", s |-> s]

\* the value of a parameter or header: absent, null or a str
ValueAbsent == [k |-> "absent", s |-> <<>>]
ValueNull == [k |-> "null", s |-> <<>>]
ValueStr(s) == [k |-> "str", s |-> s]

\* d.get(key, '') for a key of a parameter or header object: '' when the key
\* is absent, None when its value is null
GetOrEmpty(f) ==
    CASE f.k = "absent" -> SomeS(<<>>)
      [] f.k = "null" -> NoneS
      [] OTHER -> SomeS(f.s)

Param(name, value) == [name |-> name, value |-> value]

NoPost == [kind |-> "absent", params |-> <<>>]
PostDict(params) == [kind |-> "dict", params |-> params]
PostText == [kind |-> "text", params |-> <<>>]
\* postData that is the empty string
PostEmptyText == [kind |-> "emptytext", params |-> <<>>]

\* a header of a HAR headers list; its name is absent, null or a str
Header(name, value) == [name |-> name, value |-> value]

\* the headers of a request or response: absent, null, or a list
NoHeaders == [kind |-> "absent", list |-> <<>>]
NullHeaders == [kind |-> "null", list |-> <<>>]
HeaderList(l) == [kind |-> "list", list |-> l]

\* request and response are an object ("dict"), absent, or null; an entry
\* whose request is not an object has no url, method, postData or headers
BaseEntry ==
    [url |-> NoneS, method |-> SomeS(S_GET), status |-> SomeI(200),
     postData |-> NoPost, time |-> NoneI,
     request |-> "dict", response |-> "dict",
     req_headers |-> NoHeaders, resp_headers |-> NoHeaders]

\* load_har: json.load raises on a file that is not JSON
load_har(h) ==
    IF h.kind = "invalid_json"
    THEN [raised |-> TRUE, exc |-> "JSONDecodeError"]
    ELSE [raised |-> FALSE, exc |-> ""]

\* extract_entries: har.get('log', {}).get('entries', []), then main's len(entries)
extract_entries(h) ==
    CASE h.kind \in {"not_object", "log_null"} ->
             [raised |-> TRUE, exc |-> "AttributeError", entries |-> <<>>]
      [] h.kind = "entries_null" ->
             [raised |-> TRUE, exc |-> "TypeError", entries |-> <<>>]
      [] h.kind \in {"no_log", "no_entries"} ->
             [raised |-> FALSE, exc |-> "", entries |-> <<>>]
      [] OTHER ->
             [raised |-> FALSE, exc |-> "", entries |-> h.entries]

(***************************************************************************)
(* analyze_entries                                                         *)
(***************************************************************************)
\* p.get('name','')
ParamNameOf(p) == GetOrEmpty(p.name)

\* any(n.lower() in targets for n in names): "true", "false", or "raise" when a
\* None name is reached before a match (None has no lower())
RECURSIVE AnyLowerIn(_, _)
AnyLowerIn(names, targets) ==
    IF names = <<>> THEN "false"
    ELSE IF ~Head(names).some THEN "raise"
    ELSE IF LowerStr(Head(names).v) \in targets THEN "true"
    ELSE AnyLowerIn(Tail(names), targets)

\* the keyword test without the lower(): any(k in url for k in keywords)
UrlIsAuthLikeCaseSensitive(url) ==
    \E i \in 1..Len(Keywords) : Contains(Keywords[i], OrEmpty(url))

\* any(k in lower for k in keywords)
UrlIsAuthLike(url) ==
    LET lower == LowerStr(OrEmpty(url))
    IN  \E i \in 1..Len(Keywords) : Contains(Keywords[i], lower)

\* the try block of analyze_entries: post_param_names and whether a SAML
\* parameter name was seen; any exception (a non-empty str has no get) leaves
\* post_param_names = []; an empty str is falsy and stands for {}
ParamScan(postData) ==
    IF postData.kind = "text"
    THEN [names |-> <<>>, hit |-> FALSE]
    ELSE LET names == [i \in 1..Len(postData.params) |->
                           ParamNameOf(postData.params[i])]
             r == AnyLowerIn(names, SamlParamNames)
         IN  IF r = "raise" THEN [names |-> <<>>, hit |-> FALSE]
             ELSE [names |-> names, hit |-> (r = "true")]

\* a flattening in which the first of several headers of one name is kept
RECURSIVE simplify_header_list_first(_)
simplify_header_list_first(hdrs) ==
    IF hdrs.list = <<>> THEN [raised |-> FALSE, map |-> <<>>]
    ELSE LET h == hdrs.list[1]
             rest == simplify_header_list_first(HeaderList(Tail(hdrs.list)))
         IN  IF h.name.k = "null" \/ rest.raised THEN [raised |-> TRUE, map |-> <<>>]
             ELSE [raised |-> FALSE,
                   map |-> DictSet(rest.map,
                                   LowerStr(IF h.name.k = "absent" THEN <<>> ELSE h.name.s),
                                   GetOrEmpty(h.value))]

\* simplify_header_list: {h.get('name','').lower(): h.get('value','') for h in
\* (hdrs or [])}; a null name has no lower() and the comprehension raises
RECURSIVE simplify_header_list(_)
simplify_header_list(hdrs) ==
    IF hdrs.list = <<>> THEN [raised |-> FALSE, map |-> <<>>]
    ELSE LET n == Len(hdrs.list)
             h == hdrs.list[n]
             rest == simplify_header_list(HeaderList(SubSeq(hdrs.list, 1, n - 1)))
         IN  IF h.name.k = "null" \/ rest.raised THEN [raised |-> TRUE, map |-> <<>>]
             ELSE [raised |-> FALSE,
                   map |-> DictSet(rest.map,
                                   LowerStr(IF h.name.k = "absent" THEN <<>> ELSE h.name.s),
                                   GetOrEmpty(h.value))]

S_set_cookie == <<"s","e","t","-","c","o","o","k","i","e">>

\* an entry none of whose keys is there
NoKeys ==
    [url |-> NoneS, method |-> NoneS, status |-> NoneI, postData |-> NoPost,
     time |-> NoneI, request |-> "absent", response |-> "absent",
     req_headers |-> NoHeaders, resp_headers |-> NoHeaders]

\* d.pop(key, default): the value under key, and the dict without the key
dict_pop(d, key) == [value |-> d[key], dict |-> [d EXCEPT ![key] = NoKeys[key]]]

\* d.get(key, default) on the entry d, or on its request or response for the
\* keys read there: the value under key, and the dict, which get leaves as it
\* was
dict_get(d, key) == [value |-> d[key], dict |-> d]

\* the keys analyze_entries reads of an entry, of its request and of its
\* response, in the order of its statements
EntryKeys ==
    <<"request", "response", "url", "method", "status", "req_headers", "resp_headers",
      "postData", "time">>

\* the entry d after the statements that read the keys in turn
RECURSIVE AfterGets(_, _)
AfterGets(d, keys) ==
    IF keys = <<>> THEN d ELSE AfterGets(dict_get(d, Head(keys)).dict, Tail(keys))

\* what the statement that reads key gets of the entry e, which the statements
\* before it have read
Got(e, key) ==
    dict_get(AfterGets(e, SubSeq(EntryKeys, 1,
                                 (CHOOSE i \in 1..Len(EntryKeys) : EntryKeys[i] = key) - 1)),
             key).value

\* whether analyze_entries raises on entry e: req.get / resp.get on a null
\* request or response, or a null header name
EntryRaises(e) ==
    \/ Got(e, "request") = "null"
    \/ Got(e, "response") = "null"
    \/ simplify_header_list(Got(e, "req_headers")).raised
    \/ simplify_header_list(Got(e, "resp_headers")).raised

\* the dict analyze_entries builds of the values url, method, status,
\* postData and time it has read and of the header lists rq, rs
Normalized(url, method, status, postData, time, rq, rs, scan) ==
    [url |-> url, method |-> method, status |-> status,
     postData |-> postData, time |-> time,
     request_headers |-> rq, response_headers |-> rs,
     set_cookie |-> [has |-> DictHas(rs, S_set_cookie),
                     v |-> IF DictHas(rs, S_set_cookie)
                           THEN DictGet(rs, S_set_cookie) ELSE NoneS],
     is_auth_like |-> (UrlIsAuthLike(url) \/ scan.hit),
     post_param_names |-> scan.names]

AnalyzeEntry(e) ==
    Normalized(Got(e, "url"), Got(e, "method"), Got(e, "status"), Got(e, "postData"),
               Got(e, "time"), simplify_header_list(Got(e, "req_headers")).map,
               simplify_header_list(Got(e, "resp_headers")).map,
               ParamScan(Got(e, "postData")))

\* the list analyze_entries returns when no entry makes it raise
analyze_entries(es) == [i \in 1..Len(es) |-> AnalyzeEntry(es[i])]

\* analyze_entries raises: the exception of the first offending entry leaves it
AnalyzeRaises(es) == \E i \in 1..Len(es) : EntryRaises(es[i])

(***************************************************************************)
(* build_candidate_flow                                                    *)
(***************************************************************************)
\* the fallback cap of build_candidate_flow: entries[:50]
FlowCap == 50

\* the cap of the flow sample in the final report: flow[:30]
SampleCap == 30

\* a key that puts an absent timestamp after every timestamp of the inputs
SortKeyAbsentLast(e) == IF e.time.some THEN e.time.v ELSE 1000000

\* key=lambda x: x.get('time') or 0
SortKey(e) == OrZero(e.time)

\* the selection returned as it is, without sorted()
SortedByTimeSkipped(an, idx) == idx

\* a sort that puts, of two elements with equal keys, the later one first
SortedByTimeTiesReversed(an, idx) ==
    LET n == Len(idx)
        Before(j, i) ==
            \/ SortKey(an[idx[j]]) < SortKey(an[idx[i]])
            \/ SortKey(an[idx[j]]) = SortKey(an[idx[i]]) /\ j > i
        rank == [i \in 1..n |-> Cardinality({j \in 1..n : Before(j, i)}) + 1]
    IN  [p \in 1..n |-> idx[CHOOSE i \in 1..n : rank[i] = p]]

\* sorted(idx, key=SortKey): sorted() is stable, so an element comes after the
\* elements with a smaller key and after those with an equal key that precede it
SortedByTime(an, idx) ==
    LET n == Len(idx)
        Before(j, i) ==
            \/ SortKey(an[idx[j]]) < SortKey(an[idx[i]])
            \/ SortKey(an[idx[j]]) = SortKey(an[idx[i]]) /\ j < i
        rank == [i \in 1..n |-> Cardinality({j \in 1..n : Before(j, i)}) + 1]
    IN  [p \in 1..n |-> idx[CHOOSE i \in 1..n : rank[i] = p]]

\* [e for e in entries if e.get('is_auth_like')], as indices
AuthIndices(an) ==
    LET IsAuth(i) == an[i].is_auth_like
    IN  SelectSeq([i \in 1..Len(an) |-> i], IsAuth)

\* the selection without the [:50] of the fallback
SelectedIndicesUncapped(an) ==
    LET auth == AuthIndices(an)
    IN  IF auth = <<>> THEN [i \in 1..Len(an) |-> i] ELSE auth

\* the entries selected before sorting
SelectedIndices(an) ==
    LET auth == AuthIndices(an)
    IN  IF auth = <<>> THEN [i \in 1..Min(FlowCap, Len(an)) |-> i] ELSE auth

build_candidate_flow(an) == SortedByTime(an, SelectedIndices(an))

(***************************************************************************)
(* generate_ascii_diagram                                                  *)
(***************************************************************************)
\* the cap on the URL shown in a detail line: s.get("url")[:140]
UrlCap == 140

\* the tags of one flow entry; raised when a None parameter name is lowered
DiagramTags(e) ==
    LET names == e.post_param_names
        rq == IF names = <<>> THEN "false" ELSE AnyLowerIn(names, {S_samlrequest})
        rs == IF names = <<>> \/ rq = "raise" THEN "false"
              ELSE AnyLowerIn(names, {S_samlresponse})
        login == Contains(S_login, LowerStr(OrEmpty(e.url)))
    IN  [raised |-> (rq = "raise" \/ rs = "raise"),
         tags |-> (IF rq = "true" THEN <<"SAMLRequest">> ELSE <<>>)
                  \o (IF rs = "true" THEN <<"SAMLResponse">> ELSE <<>>)
                  \o (IF login THEN <<"LOGIN_FORM">> ELSE <<>>)]

\* what the loop of generate_ascii_diagram reads of the k-th flow entry e, s
\* being urlparse of its URL
DiagramRow(k, e, s) ==
    [k |-> k,
     parsed |-> ~s.raised,
     host |-> Component(s, "netloc"),
     url |-> e.url,
     status |-> e.status,
     t |-> DiagramTags(e)]

\* the hosts of the rows, and the steps made of the rows
HostsOf(first) == [i \in 1..Len(first) |-> first[i].host]
StepsOf(kept) ==
    [i \in 1..Len(kept) |->
        [host |-> kept[i].host, url |-> kept[i].url,
         status |-> kept[i].status, tags |-> kept[i].t.tags]]

\* the hosts in first-seen order, and the steps of the entries whose loop body
\* did not raise: urlparse raises on a URL with a malformed bracketed host,
\* before the host is recorded, and the tags raise after it
ScanRows(rows) ==
    LET FirstSeen(r) == /\ r.parsed
                        /\ \A j \in 1..(r.k - 1) : rows[j].parsed => rows[j].host # r.host
        Kept(r) == r.parsed /\ ~r.t.raised
    IN  [hosts |-> HostsOf(SelectSeq(rows, FirstSeen)),
         steps |-> StepsOf(SelectSeq(rows, Kept))]

\* the loop of generate_ascii_diagram over the flow
DiagramScan(an, fl) ==
    ScanRows([k \in 1..Len(fl) |->
                 DiagramRow(k, an[fl[k]], urlsplit(OrEmpty(an[fl[k]].url)))])

\* the topology lines: Browser -> SP, one hop per further host, the closing
\* line; or the placeholder
TopologyLines(hosts) ==
    IF hosts # <<>>
    THEN <<[kind |-> "browser_sp", sp |-> hosts[1], idp |-> <<>>]>>
         \o [i \in 1..(Len(hosts) - 1) |->
                [kind |-> "sp_idp", sp |-> hosts[1], idp |-> hosts[i + 1]]]
         \o <<[kind |-> "idp_sp", sp |-> <<>>, idp |-> <<>>]>>
    ELSE <<[kind |-> "no_hosts", sp |-> <<>>, idp |-> <<>>]>>

\* the lines of the diagram: the topology, then one detail line per step;
\* s.get("url")[:140] raises TypeError on a None url
RenderDiagram(scan) ==
    IF \E i \in 1..Len(scan.steps) : ~scan.steps[i].url.some
    THEN [raised |-> TRUE, exc |-> "TypeError", hosts |-> scan.hosts,
          topology |-> <<>>, details |-> <<>>]
    ELSE [raised |-> FALSE, exc |-> "", hosts |-> scan.hosts,
          topology |-> TopologyLines(scan.hosts),
          details |-> [i \in 1..Len(scan.steps) |->
                          [host |-> scan.steps[i].host,
                           status |-> scan.steps[i].status,
                           tags |-> scan.steps[i].tags,
                           url |-> Prefix(scan.steps[i].url.v, UrlCap)]]]

\* generate_ascii_diagram(flow_entries)
generate_ascii_diagram(an, fl) == RenderDiagram(DiagramScan(an, fl))

(***************************************************************************)
(* base64.b64decode and bytes.decode('utf-8', errors='ignore')             *)
(*                                                                         *)
(* Bytes are integers 0..255; a decoded text is a sequence of Unicode code *)
(* points.                                                                 *)
(***************************************************************************)
B64Chars == UpperLetters \o LowerLetters \o Digits \o <<"+", "/">>

\* the printable ASCII characters that are neither letters nor digits, the
\* grave accent by its code point
AsciiPunct ==
    <<" ", "!", "\"", "#", "$", "%", "&", "'", "(", ")", "*", "+", ",", "-",
      ".", "/", ":", ";", "<", "=", ">", "?", "@", "[", "\\", "]", "^", "_",
      "U+0060", "{", "|", "}", "~">>

\* the characters str.encode('ascii') accepts
AsciiChars == Letters \cup Range(Digits) \cup Range(AsciiPunct) \cup AsciiControls

\* table_a2b_base64 of binascii: the 6-bit value of c, 64 when c is not in the alphabet
B64Table ==
    [c \in Range(B64Chars) |-> (CHOOSE i \in 1..Len(B64Chars) : B64Chars[i] = c) - 1]

B64Val(c) == IF c \in DOMAIN B64Table THEN B64Table[c] ELSE 64

\* the decoder of binascii.a2b_base64 before the first character: quad is
\* quad_pos, left the bits left over of the characters of the quad, pads the pad
\* characters seen in it, done whether a complete pad sequence has ended the input
A2bStart == [quad |-> 0, left |-> 0, pads |-> 0, done |-> FALSE, out |-> <<>>]

\* a pad character: it ends the input when it completes the quad, and counts
\* otherwise when the quad has two characters
A2bPad(st) ==
    IF st.quad >= 2 /\ st.quad + st.pads + 1 >= 4 THEN [st EXCEPT !.done = TRUE]
    ELSE IF st.quad >= 2 THEN [st EXCEPT !.pads = @ + 1]
    ELSE st

\* a character of the alphabet, of value v
A2bDigit(st, v) ==
    CASE st.quad = 0 -> [st EXCEPT !.quad = 1, !.left = v, !.pads = 0]
      [] st.quad = 1 -> [st EXCEPT !.quad = 2, !.left = v % 16, !.pads = 0,
                                   !.out = Append(@, st.left * 4 + (v \div 16))]
      [] st.quad = 2 -> [st EXCEPT !.quad = 3, !.left = v % 4, !.pads = 0,
                                   !.out = Append(@, st.left * 16 + (v \div 4))]
      [] OTHER -> [st EXCEPT !.quad = 0, !.left = 0, !.pads = 0,
                             !.out = Append(@, st.left * 64 + v)]

\* one turn of the loop of a2b_base64, over the character c
A2bStep(st, c) ==
    IF st.done THEN st
    ELSE IF c = "=" THEN A2bPad(st)
    ELSE IF B64Val(c) >= 64 THEN st
    ELSE A2bDigit(st, B64Val(c))

\* the loop over the characters lo..hi of s, in order
RECURSIVE A2bRun(_, _, _, _)
A2bRun(s, lo, hi, st) ==
    IF lo > hi THEN st
    ELSE IF lo = hi THEN A2bStep(st, s[lo])
    ELSE LET half == A2bRun(s, lo, (lo + hi) \div 2, st)
         IN  IF half.done THEN half ELSE A2bRun(s, ((lo + hi) \div 2) + 1, hi, half)

\* the end of a2b_base64: a dangling quad is an error
A2bEnd(st) ==
    IF st.done THEN [ok |-> TRUE, bytes |-> st.out]
    ELSE [ok |-> (st.quad = 0), bytes |-> IF st.quad = 0 THEN st.out ELSE <<>>]

\* binascii.a2b_base64 (not strict): characters outside the alphabet are skipped,
\* a complete pad sequence ends the input, a dangling quad is an error
A2bBase64(s) == A2bEnd(A2bRun(s, 1, Len(s), A2bStart))

\* base64.b64decode(val) for a str: val.encode('ascii') raises ValueError on a
\* non-ASCII character; binascii.a2b_base64 skips what is not of the alphabet, bad
\* padding raises binascii.Error
b64decode(val) ==
    IF \E i \in 1..Len(val) : val[i] \notin AsciiChars
    THEN [ok |-> FALSE, bytes |-> <<>>]
    ELSE A2bBase64(val)

InRange(bs, i, lo, hi) == i <= Len(bs) /\ bs[i] >= lo /\ bs[i] <= hi

\* the first continuation byte a lead byte b admits
Lo2(b) == IF b = 224 THEN 160 ELSE IF b = 240 THEN 144 ELSE 128
Hi2(b) == IF b = 237 THEN 159 ELSE IF b = 244 THEN 143 ELSE 191

\* how many bytes the decoder takes at position i of bs: those of a well-formed
\* sequence, or those of an ill-formed one up to the byte that breaks it
Utf8Taken(bs, i) ==
    CASE bs[i] < 128 -> 1
      [] bs[i] >= 194 /\ bs[i] <= 223 -> IF InRange(bs, i + 1, 128, 191) THEN 2 ELSE 1
      [] bs[i] >= 224 /\ bs[i] <= 239 ->
           IF ~InRange(bs, i + 1, Lo2(bs[i]), Hi2(bs[i])) THEN 1
           ELSE IF ~InRange(bs, i + 2, 128, 191) THEN 2
           ELSE 3
      [] bs[i] >= 240 /\ bs[i] <= 244 ->
           IF ~InRange(bs, i + 1, Lo2(bs[i]), Hi2(bs[i])) THEN 1
           ELSE IF ~InRange(bs, i + 2, 128, 191) THEN 2
           ELSE IF ~InRange(bs, i + 3, 128, 191) THEN 3
           ELSE 4
      [] OTHER -> 1

\* the characters the decoder gives for the bytes it takes at position i: the
\* code point of a well-formed sequence, nothing for an ill-formed one
Utf8Char(bs, i) ==
    CASE bs[i] < 128 -> <<bs[i]>>
      [] bs[i] >= 194 /\ bs[i] <= 223 /\ Utf8Taken(bs, i) = 2 ->
           <<(bs[i] - 192) * 64 + (bs[i + 1] - 128)>>
      [] bs[i] >= 224 /\ bs[i] <= 239 /\ Utf8Taken(bs, i) = 3 ->
           <<(bs[i] - 224) * 4096 + (bs[i + 1] - 128) * 64 + (bs[i + 2] - 128)>>
      [] bs[i] >= 240 /\ bs[i] <= 244 /\ Utf8Taken(bs, i) = 4 ->
           <<(bs[i] - 240) * 262144 + (bs[i + 1] - 128) * 4096
             + (bs[i + 2] - 128) * 64 + (bs[i + 3] - 128)>>
      [] OTHER -> <<>>

\* the decoder over the positions lo..hi of bs, in order: st.next is the
\* position it reads next, the positions before it are taken
RECURSIVE Utf8Run(_, _, _, _)
Utf8Run(bs, lo, hi, st) ==
    IF lo > hi THEN st
    ELSE IF lo = hi
    THEN IF lo # st.next THEN st
         ELSE [next |-> lo + Utf8Taken(bs, lo), out |-> st.out \o Utf8Char(bs, lo)]
    ELSE LET half == Utf8Run(bs, lo, (lo + hi) \div 2, st)
         IN  IF half.next > hi THEN half ELSE Utf8Run(bs, ((lo + hi) \div 2) + 1, hi, half)

\* decoded.decode('utf-8', errors='ignore') from position i: an ill-formed
\* sequence is dropped up to the byte that breaks it
Utf8DecodeIgnore(bs, i) == Utf8Run(bs, i, Len(bs), [next |-> i, out |-> <<>>]).out

\* '<binary saml response (non-decodable)>'
BinaryMarker ==
    <<60, 98, 105, 110, 97, 114, 121, 32, 115, 97, 109, 108, 32, 114, 101, 115,
      112, 111, 110, 115, 101, 32, 40, 110, 111, 110, 45, 100, 101, 99, 111, 100,
      97, 98, 108, 101, 41, 62>>

(***************************************************************************)
(* HTML pages, as BeautifulSoup parses them                                *)
(*                                                                         *)
(* A page is its elements in document order.  An element is a form (with   *)
(* its action, method and the fields inside it), an input, textarea or     *)
(* select outside any form, or a script; an attribute that is not there is *)
(* None.                                                                   *)
(***************************************************************************)
Field(tag, name, value) == [tag |-> tag, name |-> name, value |-> value]

Control(tag, name, value) ==
    [tag |-> tag, name |-> name, value |-> value, action |-> NoneS,
     method |-> NoneS, fields |-> <<>>]

Form(action, method, fields) ==
    [tag |-> "form", name |-> NoneS, value |-> NoneS, action |-> action,
     method |-> method, fields |-> fields]

\* a script element; its value is script.string, the text of the script, None
\* for an empty element
Script(text) ==
    [tag |-> "script", name |-> NoneS, value |-> text, action |-> NoneS,
     method |-> NoneS, fields |-> <<>>]

\* the input, textarea and select elements of a page, in document order
RECURSIVE PageFields(_)
PageFields(page) ==
    IF page = <<>> THEN <<>>
    ELSE (IF Head(page).tag = "form" THEN Head(page).fields
          ELSE IF Head(page).tag = "script" THEN <<>>
          ELSE <<Field(Head(page).tag, Head(page).name, Head(page).value)>>)
         \o PageFields(Tail(page))

\* soup.find(...): the first element of fs satisfying P, as a one-element or
\* empty sequence
FirstWhere(fs, P(_)) ==
    IF \E i \in 1..Len(fs) : P(fs[i])
    THEN <<fs[CHOOSE i \in 1..Len(fs) : P(fs[i]) /\ \A j \in 1..(i - 1) : ~P(fs[j])]>>
    ELSE <<>>

\* a lookup that never finds a form
find_first_form_blind(page) == <<>>

\* find_first_form: soup.find('form')
find_first_form(page) ==
    LET IsForm(n) == n.tag = "form"
    IN  FirstWhere(page, IsForm)

\* the lookup without its second, case-insensitive soup.find
FindSamlInputExact(page) ==
    LET Exact(f) == f.tag = "input" /\ f.name = SomeS(S_SAMLResponse)
    IN  FirstWhere(PageFields(page), Exact)

\* the input decode_saml_response_from_html reads: the first one named exactly
\* SAMLResponse, else the first one whose name is samlresponse in any case
FindSamlInput(page) ==
    LET fs == PageFields(page)
        Exact(f) == f.tag = "input" /\ f.name = SomeS(S_SAMLResponse)
        AnyCase(f) == /\ f.tag = "input"
                      /\ f.name.some
                      /\ f.name.v # <<>>
                      /\ LowerStr(f.name.v) = S_samlresponse
        exact == FirstWhere(fs, Exact)
    IN  IF exact # <<>> THEN exact ELSE FirstWhere(fs, AnyCase)

DecodeNone == [kind |-> "none", text |-> <<>>]
DecodeText(t) == [kind |-> "text", text |-> t]

\* the value of the found input, base64-decoded and read as UTF-8
DecodeValue(val) ==
    LET d == b64decode(val)
    IN  IF d.ok THEN DecodeText(Utf8DecodeIgnore(d.bytes, 1))
        ELSE DecodeText(BinaryMarker)

decode_saml_response_from_html(page) ==
    LET inp == FindSamlInput(page)
    IN  IF inp = <<>> THEN DecodeNone
        ELSE IF ~inp[1].value.some \/ inp[1].value.v = <<>> THEN DecodeNone
        ELSE DecodeValue(inp[1].value.v)

(***************************************************************************)
(* Tables of code points: the data of idna 3.4 and of unicodedata          *)
(***************************************************************************)
\* A table is written as one sequence, its rows one after the other and each
\* of width entries: entry col of a row
Cell(table, width, row, col) == table[(width * (row - 1)) + col]

\* bisect: how many of the rows of table start at or before n, the rows lo + 1
\* to hi still to look at
RECURSIVE RowsUpTo(_, _, _, _, _)
RowsUpTo(table, width, n, lo, hi) ==
    IF lo >= hi THEN lo
    ELSE IF Cell(table, width, (lo + hi + 1) \div 2, 1) <= n
    THEN RowsUpTo(table, width, n, (lo + hi + 1) \div 2, hi)
    ELSE RowsUpTo(table, width, n, lo, ((lo + hi + 1) \div 2) - 1)

\* the row of table that starts last at or before n, 0 when there is none
RowAt(table, width, n) == RowsUpTo(table, width, n, 0, Len(table) \div width)

\* the row of a table of ranges start, end, ... whose range holds n, 0 when
\* there is none
RangeAt(table, width, n) ==
    IF RowAt(table, width, n) > 0 /\ n < Cell(table, width, RowAt(table, width, n), 2)
    THEN RowAt(table, width, n) ELSE 0

\* idna.intranges.intranges_contain(n, ranges), the ranges as rows start, end
intranges_contain(n, ranges) == RangeAt(ranges, 2, n) > 0

\* the value a table of rows start, end, value gives n
ValueAt(table, n, default) ==
    IF RangeAt(table, 3, n) > 0 THEN Cell(table, 3, RangeAt(table, 3, n), 3) ELSE default

\* idnadata.codepoint_classes['PVALID'] of idna 3.4 (Unicode 15.0.0): rows
\* start, end of ranges, the end not included
PVALID ==
    <<45, 46, 48, 58, 97, 123, 223, 247, 248, 256, 257, 258, 259, 260, 261, 262, 263, 264, 265, 266,
      267, 268, 269, 270, 271, 272, 273, 274, 275, 276, 277, 278, 279, 280, 281, 282, 283, 284, 285,
      286, 287, 288, 289, 290, 291, 292, 293, 294, 295, 296, 297, 298, 299, 300, 301, 302, 303, 304,
      305, 306, 309, 310, 311, 313, 314, 315, 316, 317, 318, 319, 322, 323, 324, 325, 326, 327, 328,
      329, 331, 332, 333, 334, 335, 336, 337, 338, 339, 340, 341, 342, 343, 344, 345, 346, 347, 348,
      349, 350, 351, 352, 353, 354, 355, 356, 357, 358, 359, 360, 361, 362, 363, 364, 365, 366, 367,
      368, 369, 370, 371, 372, 373, 374, 375, 376, 378, 379, 380, 381, 382, 383, 384, 385, 387, 388,
      389, 390, 392, 393, 396, 398, 402, 403, 405, 406, 409, 412, 414, 415, 417, 418, 419, 420, 421,
      422, 424, 425, 426, 428, 429, 430, 432, 433, 436, 437, 438, 439, 441, 444, 445, 452, 462, 463,
      464, 465, 466, 467, 468, 469, 470, 471, 472, 473, 474, 475, 476, 478, 479, 480, 481, 482, 483,
      484, 485, 486, 487, 488, 489, 490, 491, 492, 493, 494, 495, 497, 501, 502, 505, 506, 507, 508,
      509, 510, 511, 512, 513, 514, 515, 516, 517, 518, 519, 520, 521, 522, 523, 524, 525, 526, 527,
      528, 529, 530, 531, 532, 533, 534, 535, 536, 537, 538, 539, 540, 541, 542, 543, 544, 545, 546,
      547, 548, 549, 550, 551, 552, 553, 554, 555, 556, 557, 558, 559, 560, 561, 562, 563, 570, 572,
      573, 575, 577, 578, 579, 583, 584, 585, 586, 587, 588, 589, 590, 591, 688, 697, 706, 710, 722,
      748, 749, 750, 751, 768, 832, 834, 835, 838, 847, 848, 880, 881, 882, 883, 884, 887, 888, 891,
      894, 912, 913, 940, 975, 983, 984, 985, 986, 987, 988, 989, 990, 991, 992, 993, 994, 995, 996,
      997, 998, 999, 1000, 1001, 1002, 1003, 1004, 1005, 1006, 1007, 1008, 1011, 1012, 1016, 1017,
      1019, 1021, 1072, 1120, 1121, 1122, 1123, 1124, 1125, 1126, 1127, 1128, 1129, 1130, 1131,
      1132, 1133, 1134, 1135, 1136, 1137, 1138, 1139, 1140, 1141, 1142, 1143, 1144, 1145, 1146,
      1147, 1148, 1149, 1150, 1151, 1152, 1153, 1154, 1155, 1160, 1163, 1164, 1165, 1166, 1167,
      1168, 1169, 1170, 1171, 1172, 1173, 1174, 1175, 1176, 1177, 1178, 1179, 1180, 1181, 1182,
      1183, 1184, 1185, 1186, 1187, 1188, 1189, 1190, 1191, 1192, 1193, 1194, 1195, 1196, 1197,
      1198, 1199, 1200, 1201, 1202, 1203, 1204, 1205, 1206, 1207, 1208, 1209, 1210, 1211, 1212,
      1213, 1214, 1215, 1216, 1218, 1219, 1220, 1221, 1222, 1223, 1224, 1225, 1226, 1227, 1228,
      1229, 1230, 1232, 1233, 1234, 1235, 1236, 1237, 1238, 1239, 1240, 1241, 1242, 1243, 1244,
      1245, 1246, 1247, 1248, 1249, 1250, 1251, 1252, 1253, 1254, 1255, 1256, 1257, 1258, 1259,
      1260, 1261, 1262, 1263, 1264, 1265, 1266, 1267, 1268, 1269, 1270, 1271, 1272, 1273, 1274,
      1275, 1276, 1277, 1278, 1279, 1280, 1281, 1282, 1283, 1284, 1285, 1286, 1287, 1288, 1289,
      1290, 1291, 1292, 1293, 1294, 1295, 1296, 1297, 1298, 1299, 1300, 1301, 1302, 1303, 1304,
      1305, 1306, 1307, 1308, 1309, 1310, 1311, 1312, 1313, 1314, 1315, 1316, 1317, 1318, 1319,
      1320, 1321, 1322, 1323, 1324, 1325, 1326, 1327, 1328, 1369, 1370, 1376, 1415, 1416, 1417,
      1425, 1470, 1471, 1472, 1473, 1475, 1476, 1478, 1479, 1480, 1488, 1515, 1519, 1523, 1552,
      1563, 1568, 1600, 1601, 1632, 1646, 1653, 1657, 1748, 1749, 1757, 1759, 1769, 1770, 1776,
      1786, 1792, 1808, 1867, 1869, 1970, 1984, 2038, 2045, 2046, 2048, 2094, 2112, 2140, 2144,
      2155, 2160, 2184, 2185, 2191, 2200, 2274, 2275, 2392, 2400, 2404, 2406, 2416, 2417, 2436,
      2437, 2445, 2447, 2449, 2451, 2473, 2474, 2481, 2482, 2483, 2486, 2490, 2492, 2501, 2503,
      2505, 2507, 2511, 2519, 2520, 2528, 2532, 2534, 2546, 2556, 2557, 2558, 2559, 2561, 2564,
      2565, 2571, 2575, 2577, 2579, 2601, 2602, 2609, 2610, 2611, 2613, 2614, 2616, 2618, 2620,
      2621, 2622, 2627, 2631, 2633, 2635, 2638, 2641, 2642, 2652, 2653, 2662, 2678, 2689, 2692,
      2693, 2702, 2703, 2706, 2707, 2729, 2730, 2737, 2738, 2740, 2741, 2746, 2748, 2758, 2759,
      2762, 2763, 2766, 2768, 2769, 2784, 2788, 2790, 2800, 2809, 2816, 2817, 2820, 2821, 2829,
      2831, 2833, 2835, 2857, 2858, 2865, 2866, 2868, 2869, 2874, 2876, 2885, 2887, 2889, 2891,
      2894, 2901, 2904, 2911, 2916, 2918, 2928, 2929, 2930, 2946, 2948, 2949, 2955, 2958, 2961,
      2962, 2966, 2969, 2971, 2972, 2973, 2974, 2976, 2979, 2981, 2984, 2987, 2990, 3002, 3006,
      3011, 3014, 3017, 3018, 3022, 3024, 3025, 3031, 3032, 3046, 3056, 3072, 3085, 3086, 3089,
      3090, 3113, 3114, 3130, 3132, 3141, 3142, 3145, 3146, 3150, 3157, 3159, 3160, 3163, 3165,
      3166, 3168, 3172, 3174, 3184, 3200, 3204, 3205, 3213, 3214, 3217, 3218, 3241, 3242, 3252,
      3253, 3258, 3260, 3269, 3270, 3273, 3274, 3278, 3285, 3287, 3293, 3295, 3296, 3300, 3302,
      3312, 3313, 3316, 3328, 3341, 3342, 3345, 3346, 3397, 3398, 3401, 3402, 3407, 3412, 3416,
      3423, 3428, 3430, 3440, 3450, 3456, 3457, 3460, 3461, 3479, 3482, 3506, 3507, 3516, 3517,
      3518, 3520, 3527, 3530, 3531, 3535, 3541, 3542, 3543, 3544, 3552, 3558, 3568, 3570, 3572,
      3585, 3635, 3636, 3643, 3648, 3663, 3664, 3674, 3713, 3715, 3716, 3717, 3718, 3723, 3724,
      3748, 3749, 3750, 3751, 3763, 3764, 3774, 3776, 3781, 3782, 3783, 3784, 3791, 3792, 3802,
      3806, 3808, 3840, 3841, 3851, 3852, 3864, 3866, 3872, 3882, 3893, 3894, 3895, 3896, 3897,
      3898, 3902, 3907, 3908, 3912, 3913, 3917, 3918, 3922, 3923, 3927, 3928, 3932, 3933, 3945,
      3946, 3949, 3953, 3955, 3956, 3957, 3962, 3969, 3970, 3973, 3974, 3987, 3988, 3992, 3993,
      3997, 3998, 4002, 4003, 4007, 4008, 4012, 4013, 4025, 4026, 4029, 4038, 4039, 4096, 4170,
      4176, 4254, 4304, 4347, 4349, 4352, 4608, 4681, 4682, 4686, 4688, 4695, 4696, 4697, 4698,
      4702, 4704, 4745, 4746, 4750, 4752, 4785, 4786, 4790, 4792, 4799, 4800, 4801, 4802, 4806,
      4808, 4823, 4824, 4881, 4882, 4886, 4888, 4955, 4957, 4960, 4992, 5008, 5024, 5110, 5121,
      5741, 5743, 5760, 5761, 5787, 5792, 5867, 5873, 5881, 5888, 5910, 5919, 5941, 5952, 5972,
      5984, 5997, 5998, 6001, 6002, 6004, 6016, 6068, 6070, 6100, 6103, 6104, 6108, 6110, 6112,
      6122, 6160, 6170, 6176, 6265, 6272, 6315, 6320, 6390, 6400, 6431, 6432, 6444, 6448, 6460,
      6470, 6510, 6512, 6517, 6528, 6572, 6576, 6602, 6608, 6618, 6656, 6684, 6688, 6751, 6752,
      6781, 6783, 6794, 6800, 6810, 6823, 6824, 6832, 6846, 6847, 6863, 6912, 6989, 6992, 7002,
      7019, 7028, 7040, 7156, 7168, 7224, 7232, 7242, 7245, 7294, 7376, 7379, 7380, 7419, 7424,
      7468, 7471, 7472, 7483, 7484, 7502, 7503, 7531, 7544, 7545, 7579, 7616, 7680, 7681, 7682,
      7683, 7684, 7685, 7686, 7687, 7688, 7689, 7690, 7691, 7692, 7693, 7694, 7695, 7696, 7697,
      7698, 7699, 7700, 7701, 7702, 7703, 7704, 7705, 7706, 7707, 7708, 7709, 7710, 7711, 7712,
      7713, 7714, 7715, 7716, 7717, 7718, 7719, 7720, 7721, 7722, 7723, 7724, 7725, 7726, 7727,
      7728, 7729, 7730, 7731, 7732, 7733, 7734, 7735, 7736, 7737, 7738, 7739, 7740, 7741, 7742,
      7743, 7744, 7745, 7746, 7747, 7748, 7749, 7750, 7751, 7752, 7753, 7754, 7755, 7756, 7757,
      7758, 7759, 7760, 7761, 7762, 7763, 7764, 7765, 7766, 7767, 7768, 7769, 7770, 7771, 7772,
      7773, 7774, 7775, 7776, 7777, 7778, 7779, 7780, 7781, 7782, 7783, 7784, 7785, 7786, 7787,
      7788, 7789, 7790, 7791, 7792, 7793, 7794, 7795, 7796, 7797, 7798, 7799, 7800, 7801, 7802,
      7803, 7804, 7805, 7806, 7807, 7808, 7809, 7810, 7811, 7812, 7813, 7814, 7815, 7816, 7817,
      7818, 7819, 7820, 7821, 7822, 7823, 7824, 7825, 7826, 7827, 7828, 7829, 7834, 7836, 7838,
      7839, 7840, 7841, 7842, 7843, 7844, 7845, 7846, 7847, 7848, 7849, 7850, 7851, 7852, 7853,
      7854, 7855, 7856, 7857, 7858, 7859, 7860, 7861, 7862, 7863, 7864, 7865, 7866, 7867, 7868,
      7869, 7870, 7871, 7872, 7873, 7874, 7875, 7876, 7877, 7878, 7879, 7880, 7881, 7882, 7883,
      7884, 7885, 7886, 7887, 7888, 7889, 7890, 7891, 7892, 7893, 7894, 7895, 7896, 7897, 7898,
      7899, 7900, 7901, 7902, 7903, 7904, 7905, 7906, 7907, 7908, 7909, 7910, 7911, 7912, 7913,
      7914, 7915, 7916, 7917, 7918, 7919, 7920, 7921, 7922, 7923, 7924, 7925, 7926, 7927, 7928,
      7929, 7930, 7931, 7932, 7933, 7934, 7935, 7944, 7952, 7958, 7968, 7976, 7984, 7992, 8000,
      8006, 8016, 8024, 8032, 8040, 8048, 8049, 8050, 8051, 8052, 8053, 8054, 8055, 8056, 8057,
      8058, 8059, 8060, 8061, 8112, 8114, 8118, 8119, 8134, 8135, 8144, 8147, 8150, 8152, 8160,
      8163, 8164, 8168, 8182, 8183, 8526, 8527, 8580, 8581, 11312, 11360, 11361, 11362, 11365,
      11367, 11368, 11369, 11370, 11371, 11372, 11373, 11377, 11378, 11379, 11381, 11382, 11388,
      11393, 11394, 11395, 11396, 11397, 11398, 11399, 11400, 11401, 11402, 11403, 11404, 11405,
      11406, 11407, 11408, 11409, 11410, 11411, 11412, 11413, 11414, 11415, 11416, 11417, 11418,
      11419, 11420, 11421, 11422, 11423, 11424, 11425, 11426, 11427, 11428, 11429, 11430, 11431,
      11432, 11433, 11434, 11435, 11436, 11437, 11438, 11439, 11440, 11441, 11442, 11443, 11444,
      11445, 11446, 11447, 11448, 11449, 11450, 11451, 11452, 11453, 11454, 11455, 11456, 11457,
      11458, 11459, 11460, 11461, 11462, 11463, 11464, 11465, 11466, 11467, 11468, 11469, 11470,
      11471, 11472, 11473, 11474, 11475, 11476, 11477, 11478, 11479, 11480, 11481, 11482, 11483,
      11484, 11485, 11486, 11487, 11488, 11489, 11490, 11491, 11493, 11500, 11501, 11502, 11506,
      11507, 11508, 11520, 11558, 11559, 11560, 11565, 11566, 11568, 11624, 11647, 11671, 11680,
      11687, 11688, 11695, 11696, 11703, 11704, 11711, 11712, 11719, 11720, 11727, 11728, 11735,
      11736, 11743, 11744, 11776, 11823, 11824, 12293, 12296, 12330, 12334, 12348, 12349, 12353,
      12439, 12441, 12443, 12445, 12447, 12449, 12539, 12540, 12543, 12549, 12592, 12704, 12736,
      12784, 12800, 13312, 19904, 19968, 42125, 42192, 42238, 42240, 42509, 42512, 42540, 42561,
      42562, 42563, 42564, 42565, 42566, 42567, 42568, 42569, 42570, 42571, 42572, 42573, 42574,
      42575, 42576, 42577, 42578, 42579, 42580, 42581, 42582, 42583, 42584, 42585, 42586, 42587,
      42588, 42589, 42590, 42591, 42592, 42593, 42594, 42595, 42596, 42597, 42598, 42599, 42600,
      42601, 42602, 42603, 42604, 42605, 42608, 42612, 42622, 42623, 42624, 42625, 42626, 42627,
      42628, 42629, 42630, 42631, 42632, 42633, 42634, 42635, 42636, 42637, 42638, 42639, 42640,
      42641, 42642, 42643, 42644, 42645, 42646, 42647, 42648, 42649, 42650, 42651, 42652, 42654,
      42726, 42736, 42738, 42775, 42784, 42787, 42788, 42789, 42790, 42791, 42792, 42793, 42794,
      42795, 42796, 42797, 42798, 42799, 42802, 42803, 42804, 42805, 42806, 42807, 42808, 42809,
      42810, 42811, 42812, 42813, 42814, 42815, 42816, 42817, 42818, 42819, 42820, 42821, 42822,
      42823, 42824, 42825, 42826, 42827, 42828, 42829, 42830, 42831, 42832, 42833, 42834, 42835,
      42836, 42837, 42838, 42839, 42840, 42841, 42842, 42843, 42844, 42845, 42846, 42847, 42848,
      42849, 42850, 42851, 42852, 42853, 42854, 42855, 42856, 42857, 42858, 42859, 42860, 42861,
      42862, 42863, 42864, 42865, 42873, 42874, 42875, 42876, 42877, 42879, 42880, 42881, 42882,
      42883, 42884, 42885, 42886, 42887, 42889, 42892, 42893, 42894, 42896, 42897, 42898, 42899,
      42902, 42903, 42904, 42905, 42906, 42907, 42908, 42909, 42910, 42911, 42912, 42913, 42914,
      42915, 42916, 42917, 42918, 42919, 42920, 42921, 42922, 42927, 42928, 42933, 42934, 42935,
      42936, 42937, 42938, 42939, 42940, 42941, 42942, 42943, 42944, 42945, 42946, 42947, 42948,
      42952, 42953, 42954, 42955, 42961, 42962, 42963, 42964, 42965, 42966, 42967, 42968, 42969,
      42970, 42994, 42997, 42998, 43000, 43002, 43048, 43052, 43053, 43072, 43124, 43136, 43206,
      43216, 43226, 43232, 43256, 43259, 43260, 43261, 43310, 43312, 43348, 43392, 43457, 43471,
      43482, 43488, 43519, 43520, 43575, 43584, 43598, 43600, 43610, 43616, 43639, 43642, 43715,
      43739, 43742, 43744, 43760, 43762, 43767, 43777, 43783, 43785, 43791, 43793, 43799, 43808,
      43815, 43816, 43823, 43824, 43867, 43872, 43881, 43968, 44011, 44012, 44014, 44016, 44026,
      44032, 55204, 64014, 64016, 64017, 64018, 64019, 64021, 64031, 64032, 64033, 64034, 64035,
      64037, 64039, 64042, 64286, 64287, 65056, 65072, 65139, 65140, 65536, 65548, 65549, 65575,
      65576, 65595, 65596, 65598, 65599, 65614, 65616, 65630, 65664, 65787, 66045, 66046, 66176,
      66205, 66208, 66257, 66272, 66273, 66304, 66336, 66349, 66369, 66370, 66378, 66384, 66427,
      66432, 66462, 66464, 66500, 66504, 66512, 66600, 66718, 66720, 66730, 66776, 66812, 66816,
      66856, 66864, 66916, 66967, 66978, 66979, 66994, 66995, 67002, 67003, 67005, 67072, 67383,
      67392, 67414, 67424, 67432, 67456, 67462, 67463, 67505, 67506, 67515, 67584, 67590, 67592,
      67593, 67594, 67638, 67639, 67641, 67644, 67645, 67647, 67670, 67680, 67703, 67712, 67743,
      67808, 67827, 67828, 67830, 67840, 67862, 67872, 67898, 67968, 68024, 68030, 68032, 68096,
      68100, 68101, 68103, 68108, 68116, 68117, 68120, 68121, 68150, 68152, 68155, 68159, 68160,
      68192, 68221, 68224, 68253, 68288, 68296, 68297, 68327, 68352, 68406, 68416, 68438, 68448,
      68467, 68480, 68498, 68608, 68681, 68800, 68851, 68864, 68904, 68912, 68922, 69248, 69290,
      69291, 69293, 69296, 69298, 69373, 69405, 69415, 69416, 69424, 69457, 69488, 69510, 69552,
      69573, 69600, 69623, 69632, 69703, 69734, 69750, 69759, 69819, 69826, 69827, 69840, 69865,
      69872, 69882, 69888, 69941, 69942, 69952, 69956, 69960, 69968, 70004, 70006, 70007, 70016,
      70085, 70089, 70093, 70094, 70107, 70108, 70109, 70144, 70162, 70163, 70200, 70206, 70210,
      70272, 70279, 70280, 70281, 70282, 70286, 70287, 70302, 70303, 70313, 70320, 70379, 70384,
      70394, 70400, 70404, 70405, 70413, 70415, 70417, 70419, 70441, 70442, 70449, 70450, 70452,
      70453, 70458, 70459, 70469, 70471, 70473, 70475, 70478, 70480, 70481, 70487, 70488, 70493,
      70500, 70502, 70509, 70512, 70517, 70656, 70731, 70736, 70746, 70750, 70754, 70784, 70854,
      70855, 70856, 70864, 70874, 71040, 71094, 71096, 71105, 71128, 71134, 71168, 71233, 71236,
      71237, 71248, 71258, 71296, 71353, 71360, 71370, 71424, 71451, 71453, 71468, 71472, 71482,
      71488, 71495, 71680, 71739, 71872, 71914, 71935, 71943, 71945, 71946, 71948, 71956, 71957,
      71959, 71960, 71990, 71991, 71993, 71995, 72004, 72016, 72026, 72096, 72104, 72106, 72152,
      72154, 72162, 72163, 72165, 72192, 72255, 72263, 72264, 72272, 72346, 72349, 72350, 72368,
      72441, 72704, 72713, 72714, 72759, 72760, 72769, 72784, 72794, 72818, 72848, 72850, 72872,
      72873, 72887, 72960, 72967, 72968, 72970, 72971, 73015, 73018, 73019, 73020, 73022, 73023,
      73032, 73040, 73050, 73056, 73062, 73063, 73065, 73066, 73103, 73104, 73106, 73107, 73113,
      73120, 73130, 73440, 73463, 73472, 73489, 73490, 73531, 73534, 73539, 73552, 73562, 73648,
      73649, 73728, 74650, 74880, 75076, 77712, 77809, 77824, 78896, 78912, 78934, 82944, 83527,
      92160, 92729, 92736, 92767, 92768, 92778, 92784, 92863, 92864, 92874, 92880, 92910, 92912,
      92917, 92928, 92983, 92992, 92996, 93008, 93018, 93027, 93048, 93053, 93072, 93792, 93824,
      93952, 94027, 94031, 94088, 94095, 94112, 94176, 94178, 94179, 94181, 94192, 94194, 94208,
      100344, 100352, 101590, 101632, 101641, 110576, 110580, 110581, 110588, 110589, 110591,
      110592, 110883, 110898, 110899, 110928, 110931, 110933, 110934, 110948, 110952, 110960,
      111356, 113664, 113771, 113776, 113789, 113792, 113801, 113808, 113818, 113821, 113823,
      118528, 118574, 118576, 118599, 121344, 121399, 121403, 121453, 121461, 121462, 121476,
      121477, 121499, 121504, 121505, 121520, 122624, 122655, 122661, 122667, 122880, 122887,
      122888, 122905, 122907, 122914, 122915, 122917, 122918, 122923, 122928, 122990, 123023,
      123024, 123136, 123181, 123184, 123198, 123200, 123210, 123214, 123215, 123536, 123567,
      123584, 123642, 124112, 124154, 124896, 124903, 124904, 124908, 124909, 124911, 124912,
      124927, 124928, 125125, 125136, 125143, 125218, 125260, 125264, 125274, 131072, 173792,
      173824, 177978, 177984, 178206, 178208, 183970, 183984, 191457, 196608, 201547, 201552,
      205744>>

\* idnadata.codepoint_classes['CONTEXTJ']
CONTEXTJ ==
    <<8204, 8206>>

\* idnadata.codepoint_classes['CONTEXTO']
CONTEXTO ==
    <<183, 184, 885, 886, 1523, 1525, 1632, 1642, 1776, 1786, 12539, 12540>>

\* idnadata.scripts['Greek']
ScriptGreek ==
    <<880, 884, 885, 888, 890, 894, 895, 896, 900, 901, 902, 903, 904, 907, 908, 909, 910, 930, 931,
      994, 1008, 1024, 7462, 7467, 7517, 7522, 7526, 7531, 7615, 7616, 7936, 7958, 7960, 7966, 7968,
      8006, 8008, 8014, 8016, 8024, 8025, 8026, 8027, 8028, 8029, 8030, 8031, 8062, 8064, 8117,
      8118, 8133, 8134, 8148, 8150, 8156, 8157, 8176, 8178, 8181, 8182, 8191, 8486, 8487, 43877,
      43878, 65856, 65935, 65952, 65953, 119296, 119366>>

\* idnadata.scripts['Han']
ScriptHan ==
    <<11904, 11930, 11931, 12020, 12032, 12246, 12293, 12294, 12295, 12296, 12321, 12330, 12344,
      12348, 13312, 19904, 19968, 40960, 63744, 64110, 64112, 64218, 94178, 94180, 94192, 94194,
      131072, 173792, 173824, 177978, 177984, 178206, 178208, 183970, 183984, 191457, 194560,
      195102, 196608, 201547, 201552, 205744>>

\* idnadata.scripts['Hebrew']
ScriptHebrew ==
    <<1425, 1480, 1488, 1515, 1519, 1525, 64285, 64311, 64312, 64317, 64318, 64319, 64320, 64322,
      64323, 64325, 64326, 64336>>

\* idnadata.scripts['Hiragana']
ScriptHiragana ==
    <<12353, 12439, 12445, 12448, 110593, 110880, 110898, 110899, 110928, 110931, 127488, 127489>>

\* idnadata.scripts['Katakana']
ScriptKatakana ==
    <<12449, 12539, 12541, 12544, 12784, 12800, 13008, 13055, 13056, 13144, 65382, 65392, 65393,
      65438, 110576, 110580, 110581, 110588, 110589, 110591, 110592, 110593, 110880, 110883, 110933,
      110934, 110948, 110952>>

\* idnadata.joining_types: rows start, end, type of the ranges of code points
\* that have a joining type
joining_types ==
    <<1536, 1542, "U", 1544, 1545, "U", 1547, 1548, "U", 1568, 1569, "D", 1569, 1570, "U", 1570,
      1574, "R", 1574, 1575, "D", 1575, 1576, "R", 1576, 1577, "D", 1577, 1578, "R", 1578, 1583,
      "D", 1583, 1587, "R", 1587, 1600, "D", 1600, 1601, "C", 1601, 1608, "D", 1608, 1609, "R",
      1609, 1611, "D", 1646, 1648, "D", 1649, 1652, "R", 1652, 1653, "U", 1653, 1656, "R", 1656,
      1672, "D", 1672, 1690, "R", 1690, 1728, "D", 1728, 1729, "R", 1729, 1731, "D", 1731, 1740,
      "R", 1740, 1741, "D", 1741, 1742, "R", 1742, 1743, "D", 1743, 1744, "R", 1744, 1746, "D",
      1746, 1748, "R", 1749, 1750, "R", 1757, 1758, "U", 1774, 1776, "R", 1786, 1789, "D", 1791,
      1792, "D", 1807, 1808, "T", 1808, 1809, "R", 1810, 1813, "D", 1813, 1818, "R", 1818, 1822,
      "D", 1822, 1823, "R", 1823, 1832, "D", 1832, 1833, "R", 1833, 1834, "D", 1834, 1835, "R",
      1835, 1836, "D", 1836, 1837, "R", 1837, 1839, "D", 1839, 1840, "R", 1869, 1870, "R", 1870,
      1881, "D", 1881, 1884, "R", 1884, 1899, "D", 1899, 1901, "R", 1901, 1905, "D", 1905, 1906,
      "R", 1906, 1907, "D", 1907, 1909, "R", 1909, 1912, "D", 1912, 1914, "R", 1914, 1920, "D",
      1994, 2027, "D", 2042, 2043, "C", 2112, 2113, "R", 2113, 2118, "D", 2118, 2120, "R", 2120,
      2121, "D", 2121, 2122, "R", 2122, 2132, "D", 2132, 2133, "R", 2133, 2134, "D", 2134, 2137,
      "R", 2144, 2145, "D", 2145, 2146, "U", 2146, 2150, "D", 2150, 2151, "U", 2151, 2152, "R",
      2152, 2153, "D", 2153, 2155, "R", 2160, 2179, "R", 2179, 2182, "C", 2182, 2183, "D", 2183,
      2185, "U", 2185, 2190, "D", 2190, 2191, "R", 2192, 2194, "U", 2208, 2218, "D", 2218, 2221,
      "R", 2221, 2222, "U", 2222, 2223, "R", 2223, 2225, "D", 2225, 2227, "R", 2227, 2233, "D",
      2233, 2234, "R", 2234, 2249, "D", 2274, 2275, "U", 6150, 6151, "U", 6151, 6152, "D", 6154,
      6155, "C", 6158, 6159, "U", 6176, 6265, "D", 6272, 6277, "U", 6277, 6279, "T", 6279, 6313,
      "D", 6314, 6315, "D", 8204, 8205, "U", 8205, 8206, "C", 8239, 8240, "U", 8294, 8298, "U",
      43072, 43122, "D", 43122, 43123, "L", 43123, 43124, "U", 68288, 68293, "D", 68293, 68294, "R",
      68294, 68295, "U", 68295, 68296, "R", 68296, 68297, "U", 68297, 68299, "R", 68299, 68301, "U",
      68301, 68302, "L", 68302, 68307, "R", 68307, 68311, "D", 68311, 68312, "L", 68312, 68317, "D",
      68317, 68318, "R", 68318, 68321, "D", 68321, 68322, "R", 68322, 68324, "U", 68324, 68325, "R",
      68331, 68335, "D", 68335, 68336, "R", 68480, 68481, "D", 68481, 68482, "R", 68482, 68483, "D",
      68483, 68486, "R", 68486, 68489, "D", 68489, 68490, "R", 68490, 68492, "D", 68492, 68493, "R",
      68493, 68494, "D", 68494, 68496, "R", 68496, 68497, "D", 68497, 68498, "R", 68521, 68525, "R",
      68525, 68527, "D", 68527, 68528, "U", 68864, 68865, "L", 68865, 68898, "D", 68898, 68899, "R",
      68899, 68900, "D", 69424, 69427, "D", 69427, 69428, "R", 69428, 69445, "D", 69445, 69446, "U",
      69457, 69460, "D", 69460, 69461, "R", 69488, 69492, "D", 69492, 69494, "R", 69494, 69506, "D",
      69552, 69553, "D", 69553, 69554, "U", 69554, 69556, "D", 69556, 69559, "R", 69559, 69560, "U",
      69560, 69561, "D", 69561, 69563, "R", 69563, 69565, "D", 69565, 69566, "R", 69566, 69568, "D",
      69568, 69569, "U", 69569, 69570, "D", 69570, 69572, "R", 69572, 69573, "D", 69573, 69577, "U",
      69577, 69578, "R", 69578, 69579, "D", 69579, 69580, "L", 69821, 69822, "U", 69837, 69838, "U",
      125184, 125252, "D", 125259, 125260, "T">>

\* unicodedata.bidirectional of Unicode 14.0.0, the data of Python 3.11: rows
\* start, end, class of the ranges of assigned code points
BidiClasses ==
    <<0, 9, "BN", 9, 10, "S", 10, 11, "B", 11, 12, "S", 12, 13, "WS", 13, 14, "B", 14, 28, "BN", 28,
      31, "B", 31, 32, "S", 32, 33, "WS", 33, 35, "ON", 35, 38, "ET", 38, 43, "ON", 43, 44, "ES",
      44, 45, "CS", 45, 46, "ES", 46, 48, "CS", 48, 58, "EN", 58, 59, "CS", 59, 65, "ON", 65, 91,
      "L", 91, 97, "ON", 97, 123, "L", 123, 127, "ON", 127, 133, "BN", 133, 134, "B", 134, 160,
      "BN", 160, 161, "CS", 161, 162, "ON", 162, 166, "ET", 166, 170, "ON", 170, 171, "L", 171, 173,
      "ON", 173, 174, "BN", 174, 176, "ON", 176, 178, "ET", 178, 180, "EN", 180, 181, "ON", 181,
      182, "L", 182, 185, "ON", 185, 186, "EN", 186, 187, "L", 187, 192, "ON", 192, 215, "L", 215,
      216, "ON", 216, 247, "L", 247, 248, "ON", 248, 697, "L", 697, 699, "ON", 699, 706, "L", 706,
      720, "ON", 720, 722, "L", 722, 736, "ON", 736, 741, "L", 741, 750, "ON", 750, 751, "L", 751,
      768, "ON", 768, 880, "NSM", 880, 884, "L", 884, 886, "ON", 886, 888, "L", 890, 894, "L", 894,
      895, "ON", 895, 896, "L", 900, 902, "ON", 902, 903, "L", 903, 904, "ON", 904, 907, "L", 908,
      909, "L", 910, 930, "L", 931, 1014, "L", 1014, 1015, "ON", 1015, 1155, "L", 1155, 1162, "NSM",
      1162, 1328, "L", 1329, 1367, "L", 1369, 1418, "L", 1418, 1419, "ON", 1421, 1423, "ON", 1423,
      1424, "ET", 1425, 1470, "NSM", 1470, 1471, "R", 1471, 1472, "NSM", 1472, 1473, "R", 1473,
      1475, "NSM", 1475, 1476, "R", 1476, 1478, "NSM", 1478, 1479, "R", 1479, 1480, "NSM", 1488,
      1515, "R", 1519, 1525, "R", 1536, 1542, "AN", 1542, 1544, "ON", 1544, 1545, "AL", 1545, 1547,
      "ET", 1547, 1548, "AL", 1548, 1549, "CS", 1549, 1550, "AL", 1550, 1552, "ON", 1552, 1563,
      "NSM", 1563, 1611, "AL", 1611, 1632, "NSM", 1632, 1642, "AN", 1642, 1643, "ET", 1643, 1645,
      "AN", 1645, 1648, "AL", 1648, 1649, "NSM", 1649, 1750, "AL", 1750, 1757, "NSM", 1757, 1758,
      "AN", 1758, 1759, "ON", 1759, 1765, "NSM", 1765, 1767, "AL", 1767, 1769, "NSM", 1769, 1770,
      "ON", 1770, 1774, "NSM", 1774, 1776, "AL", 1776, 1786, "EN", 1786, 1806, "AL", 1807, 1809,
      "AL", 1809, 1810, "NSM", 1810, 1840, "AL", 1840, 1867, "NSM", 1869, 1958, "AL", 1958, 1969,
      "NSM", 1969, 1970, "AL", 1984, 2027, "R", 2027, 2036, "NSM", 2036, 2038, "R", 2038, 2042,
      "ON", 2042, 2043, "R", 2045, 2046, "NSM", 2046, 2070, "R", 2070, 2074, "NSM", 2074, 2075, "R",
      2075, 2084, "NSM", 2084, 2085, "R", 2085, 2088, "NSM", 2088, 2089, "R", 2089, 2094, "NSM",
      2096, 2111, "R", 2112, 2137, "R", 2137, 2140, "NSM", 2142, 2143, "R", 2144, 2155, "AL", 2160,
      2191, "AL", 2192, 2194, "AN", 2200, 2208, "NSM", 2208, 2250, "AL", 2250, 2274, "NSM", 2274,
      2275, "AN", 2275, 2307, "NSM", 2307, 2362, "L", 2362, 2363, "NSM", 2363, 2364, "L", 2364,
      2365, "NSM", 2365, 2369, "L", 2369, 2377, "NSM", 2377, 2381, "L", 2381, 2382, "NSM", 2382,
      2385, "L", 2385, 2392, "NSM", 2392, 2402, "L", 2402, 2404, "NSM", 2404, 2433, "L", 2433, 2434,
      "NSM", 2434, 2436, "L", 2437, 2445, "L", 2447, 2449, "L", 2451, 2473, "L", 2474, 2481, "L",
      2482, 2483, "L", 2486, 2490, "L", 2492, 2493, "NSM", 2493, 2497, "L", 2497, 2501, "NSM", 2503,
      2505, "L", 2507, 2509, "L", 2509, 2510, "NSM", 2510, 2511, "L", 2519, 2520, "L", 2524, 2526,
      "L", 2527, 2530, "L", 2530, 2532, "NSM", 2534, 2546, "L", 2546, 2548, "ET", 2548, 2555, "L",
      2555, 2556, "ET", 2556, 2558, "L", 2558, 2559, "NSM", 2561, 2563, "NSM", 2563, 2564, "L",
      2565, 2571, "L", 2575, 2577, "L", 2579, 2601, "L", 2602, 2609, "L", 2610, 2612, "L", 2613,
      2615, "L", 2616, 2618, "L", 2620, 2621, "NSM", 2622, 2625, "L", 2625, 2627, "NSM", 2631, 2633,
      "NSM", 2635, 2638, "NSM", 2641, 2642, "NSM", 2649, 2653, "L", 2654, 2655, "L", 2662, 2672,
      "L", 2672, 2674, "NSM", 2674, 2677, "L", 2677, 2678, "NSM", 2678, 2679, "L", 2689, 2691,
      "NSM", 2691, 2692, "L", 2693, 2702, "L", 2703, 2706, "L", 2707, 2729, "L", 2730, 2737, "L",
      2738, 2740, "L", 2741, 2746, "L", 2748, 2749, "NSM", 2749, 2753, "L", 2753, 2758, "NSM", 2759,
      2761, "NSM", 2761, 2762, "L", 2763, 2765, "L", 2765, 2766, "NSM", 2768, 2769, "L", 2784, 2786,
      "L", 2786, 2788, "NSM", 2790, 2801, "L", 2801, 2802, "ET", 2809, 2810, "L", 2810, 2816, "NSM",
      2817, 2818, "NSM", 2818, 2820, "L", 2821, 2829, "L", 2831, 2833, "L", 2835, 2857, "L", 2858,
      2865, "L", 2866, 2868, "L", 2869, 2874, "L", 2876, 2877, "NSM", 2877, 2879, "L", 2879, 2880,
      "NSM", 2880, 2881, "L", 2881, 2885, "NSM", 2887, 2889, "L", 2891, 2893, "L", 2893, 2894,
      "NSM", 2901, 2903, "NSM", 2903, 2904, "L", 2908, 2910, "L", 2911, 2914, "L", 2914, 2916,
      "NSM", 2918, 2936, "L", 2946, 2947, "NSM", 2947, 2948, "L", 2949, 2955, "L", 2958, 2961, "L",
      2962, 2966, "L", 2969, 2971, "L", 2972, 2973, "L", 2974, 2976, "L", 2979, 2981, "L", 2984,
      2987, "L", 2990, 3002, "L", 3006, 3008, "L", 3008, 3009, "NSM", 3009, 3011, "L", 3014, 3017,
      "L", 3018, 3021, "L", 3021, 3022, "NSM", 3024, 3025, "L", 3031, 3032, "L", 3046, 3059, "L",
      3059, 3065, "ON", 3065, 3066, "ET", 3066, 3067, "ON", 3072, 3073, "NSM", 3073, 3076, "L",
      3076, 3077, "NSM", 3077, 3085, "L", 3086, 3089, "L", 3090, 3113, "L", 3114, 3130, "L", 3132,
      3133, "NSM", 3133, 3134, "L", 3134, 3137, "NSM", 3137, 3141, "L", 3142, 3145, "NSM", 3146,
      3150, "NSM", 3157, 3159, "NSM", 3160, 3163, "L", 3165, 3166, "L", 3168, 3170, "L", 3170, 3172,
      "NSM", 3174, 3184, "L", 3191, 3192, "L", 3192, 3199, "ON", 3199, 3201, "L", 3201, 3202, "NSM",
      3202, 3213, "L", 3214, 3217, "L", 3218, 3241, "L", 3242, 3252, "L", 3253, 3258, "L", 3260,
      3261, "NSM", 3261, 3269, "L", 3270, 3273, "L", 3274, 3276, "L", 3276, 3278, "NSM", 3285, 3287,
      "L", 3293, 3295, "L", 3296, 3298, "L", 3298, 3300, "NSM", 3302, 3312, "L", 3313, 3315, "L",
      3328, 3330, "NSM", 3330, 3341, "L", 3342, 3345, "L", 3346, 3387, "L", 3387, 3389, "NSM", 3389,
      3393, "L", 3393, 3397, "NSM", 3398, 3401, "L", 3402, 3405, "L", 3405, 3406, "NSM", 3406, 3408,
      "L", 3412, 3426, "L", 3426, 3428, "NSM", 3430, 3456, "L", 3457, 3458, "NSM", 3458, 3460, "L",
      3461, 3479, "L", 3482, 3506, "L", 3507, 3516, "L", 3517, 3518, "L", 3520, 3527, "L", 3530,
      3531, "NSM", 3535, 3538, "L", 3538, 3541, "NSM", 3542, 3543, "NSM", 3544, 3552, "L", 3558,
      3568, "L", 3570, 3573, "L", 3585, 3633, "L", 3633, 3634, "NSM", 3634, 3636, "L", 3636, 3643,
      "NSM", 3647, 3648, "ET", 3648, 3655, "L", 3655, 3663, "NSM", 3663, 3676, "L", 3713, 3715, "L",
      3716, 3717, "L", 3718, 3723, "L", 3724, 3748, "L", 3749, 3750, "L", 3751, 3761, "L", 3761,
      3762, "NSM", 3762, 3764, "L", 3764, 3773, "NSM", 3773, 3774, "L", 3776, 3781, "L", 3782, 3783,
      "L", 3784, 3790, "NSM", 3792, 3802, "L", 3804, 3808, "L", 3840, 3864, "L", 3864, 3866, "NSM",
      3866, 3893, "L", 3893, 3894, "NSM", 3894, 3895, "L", 3895, 3896, "NSM", 3896, 3897, "L", 3897,
      3898, "NSM", 3898, 3902, "ON", 3902, 3912, "L", 3913, 3949, "L", 3953, 3967, "NSM", 3967,
      3968, "L", 3968, 3973, "NSM", 3973, 3974, "L", 3974, 3976, "NSM", 3976, 3981, "L", 3981, 3992,
      "NSM", 3993, 4029, "NSM", 4030, 4038, "L", 4038, 4039, "NSM", 4039, 4045, "L", 4046, 4059,
      "L", 4096, 4141, "L", 4141, 4145, "NSM", 4145, 4146, "L", 4146, 4152, "NSM", 4152, 4153, "L",
      4153, 4155, "NSM", 4155, 4157, "L", 4157, 4159, "NSM", 4159, 4184, "L", 4184, 4186, "NSM",
      4186, 4190, "L", 4190, 4193, "NSM", 4193, 4209, "L", 4209, 4213, "NSM", 4213, 4226, "L", 4226,
      4227, "NSM", 4227, 4229, "L", 4229, 4231, "NSM", 4231, 4237, "L", 4237, 4238, "NSM", 4238,
      4253, "L", 4253, 4254, "NSM", 4254, 4294, "L", 4295, 4296, "L", 4301, 4302, "L", 4304, 4681,
      "L", 4682, 4686, "L", 4688, 4695, "L", 4696, 4697, "L", 4698, 4702, "L", 4704, 4745, "L",
      4746, 4750, "L", 4752, 4785, "L", 4786, 4790, "L", 4792, 4799, "L", 4800, 4801, "L", 4802,
      4806, "L", 4808, 4823, "L", 4824, 4881, "L", 4882, 4886, "L", 4888, 4955, "L", 4957, 4960,
      "NSM", 4960, 4989, "L", 4992, 5008, "L", 5008, 5018, "ON", 5024, 5110, "L", 5112, 5118, "L",
      5120, 5121, "ON", 5121, 5760, "L", 5760, 5761, "WS", 5761, 5787, "L", 5787, 5789, "ON", 5792,
      5881, "L", 5888, 5906, "L", 5906, 5909, "NSM", 5909, 5910, "L", 5919, 5938, "L", 5938, 5940,
      "NSM", 5940, 5943, "L", 5952, 5970, "L", 5970, 5972, "NSM", 5984, 5997, "L", 5998, 6001, "L",
      6002, 6004, "NSM", 6016, 6068, "L", 6068, 6070, "NSM", 6070, 6071, "L", 6071, 6078, "NSM",
      6078, 6086, "L", 6086, 6087, "NSM", 6087, 6089, "L", 6089, 6100, "NSM", 6100, 6107, "L", 6107,
      6108, "ET", 6108, 6109, "L", 6109, 6110, "NSM", 6112, 6122, "L", 6128, 6138, "ON", 6144, 6155,
      "ON", 6155, 6158, "NSM", 6158, 6159, "BN", 6159, 6160, "NSM", 6160, 6170, "L", 6176, 6265,
      "L", 6272, 6277, "L", 6277, 6279, "NSM", 6279, 6313, "L", 6313, 6314, "NSM", 6314, 6315, "L",
      6320, 6390, "L", 6400, 6431, "L", 6432, 6435, "NSM", 6435, 6439, "L", 6439, 6441, "NSM", 6441,
      6444, "L", 6448, 6450, "L", 6450, 6451, "NSM", 6451, 6457, "L", 6457, 6460, "NSM", 6464, 6465,
      "ON", 6468, 6470, "ON", 6470, 6510, "L", 6512, 6517, "L", 6528, 6572, "L", 6576, 6602, "L",
      6608, 6619, "L", 6622, 6656, "ON", 6656, 6679, "L", 6679, 6681, "NSM", 6681, 6683, "L", 6683,
      6684, "NSM", 6686, 6742, "L", 6742, 6743, "NSM", 6743, 6744, "L", 6744, 6751, "NSM", 6752,
      6753, "NSM", 6753, 6754, "L", 6754, 6755, "NSM", 6755, 6757, "L", 6757, 6765, "NSM", 6765,
      6771, "L", 6771, 6781, "NSM", 6783, 6784, "NSM", 6784, 6794, "L", 6800, 6810, "L", 6816, 6830,
      "L", 6832, 6863, "NSM", 6912, 6916, "NSM", 6916, 6964, "L", 6964, 6965, "NSM", 6965, 6966,
      "L", 6966, 6971, "NSM", 6971, 6972, "L", 6972, 6973, "NSM", 6973, 6978, "L", 6978, 6979,
      "NSM", 6979, 6989, "L", 6992, 7019, "L", 7019, 7028, "NSM", 7028, 7039, "L", 7040, 7042,
      "NSM", 7042, 7074, "L", 7074, 7078, "NSM", 7078, 7080, "L", 7080, 7082, "NSM", 7082, 7083,
      "L", 7083, 7086, "NSM", 7086, 7142, "L", 7142, 7143, "NSM", 7143, 7144, "L", 7144, 7146,
      "NSM", 7146, 7149, "L", 7149, 7150, "NSM", 7150, 7151, "L", 7151, 7154, "NSM", 7154, 7156,
      "L", 7164, 7212, "L", 7212, 7220, "NSM", 7220, 7222, "L", 7222, 7224, "NSM", 7227, 7242, "L",
      7245, 7305, "L", 7312, 7355, "L", 7357, 7368, "L", 7376, 7379, "NSM", 7379, 7380, "L", 7380,
      7393, "NSM", 7393, 7394, "L", 7394, 7401, "NSM", 7401, 7405, "L", 7405, 7406, "NSM", 7406,
      7412, "L", 7412, 7413, "NSM", 7413, 7416, "L", 7416, 7418, "NSM", 7418, 7419, "L", 7424, 7616,
      "L", 7616, 7680, "NSM", 7680, 7958, "L", 7960, 7966, "L", 7968, 8006, "L", 8008, 8014, "L",
      8016, 8024, "L", 8025, 8026, "L", 8027, 8028, "L", 8029, 8030, "L", 8031, 8062, "L", 8064,
      8117, "L", 8118, 8125, "L", 8125, 8126, "ON", 8126, 8127, "L", 8127, 8130, "ON", 8130, 8133,
      "L", 8134, 8141, "L", 8141, 8144, "ON", 8144, 8148, "L", 8150, 8156, "L", 8157, 8160, "ON",
      8160, 8173, "L", 8173, 8176, "ON", 8178, 8181, "L", 8182, 8189, "L", 8189, 8191, "ON", 8192,
      8203, "WS", 8203, 8206, "BN", 8206, 8207, "L", 8207, 8208, "R", 8208, 8232, "ON", 8232, 8233,
      "WS", 8233, 8234, "B", 8234, 8235, "LRE", 8235, 8236, "RLE", 8236, 8237, "PDF", 8237, 8238,
      "LRO", 8238, 8239, "RLO", 8239, 8240, "CS", 8240, 8245, "ET", 8245, 8260, "ON", 8260, 8261,
      "CS", 8261, 8287, "ON", 8287, 8288, "WS", 8288, 8293, "BN", 8294, 8295, "LRI", 8295, 8296,
      "RLI", 8296, 8297, "FSI", 8297, 8298, "PDI", 8298, 8304, "BN", 8304, 8305, "EN", 8305, 8306,
      "L", 8308, 8314, "EN", 8314, 8316, "ES", 8316, 8319, "ON", 8319, 8320, "L", 8320, 8330, "EN",
      8330, 8332, "ES", 8332, 8335, "ON", 8336, 8349, "L", 8352, 8385, "ET", 8400, 8433, "NSM",
      8448, 8450, "ON", 8450, 8451, "L", 8451, 8455, "ON", 8455, 8456, "L", 8456, 8458, "ON", 8458,
      8468, "L", 8468, 8469, "ON", 8469, 8470, "L", 8470, 8473, "ON", 8473, 8478, "L", 8478, 8484,
      "ON", 8484, 8485, "L", 8485, 8486, "ON", 8486, 8487, "L", 8487, 8488, "ON", 8488, 8489, "L",
      8489, 8490, "ON", 8490, 8494, "L", 8494, 8495, "ET", 8495, 8506, "L", 8506, 8508, "ON", 8508,
      8512, "L", 8512, 8517, "ON", 8517, 8522, "L", 8522, 8526, "ON", 8526, 8528, "L", 8528, 8544,
      "ON", 8544, 8585, "L", 8585, 8588, "ON", 8592, 8722, "ON", 8722, 8723, "ES", 8723, 8724, "ET",
      8724, 9014, "ON", 9014, 9083, "L", 9083, 9109, "ON", 9109, 9110, "L", 9110, 9255, "ON", 9280,
      9291, "ON", 9312, 9352, "ON", 9352, 9372, "EN", 9372, 9450, "L", 9450, 9900, "ON", 9900, 9901,
      "L", 9901, 10240, "ON", 10240, 10496, "L", 10496, 11124, "ON", 11126, 11158, "ON", 11159,
      11264, "ON", 11264, 11493, "L", 11493, 11499, "ON", 11499, 11503, "L", 11503, 11506, "NSM",
      11506, 11508, "L", 11513, 11520, "ON", 11520, 11558, "L", 11559, 11560, "L", 11565, 11566,
      "L", 11568, 11624, "L", 11631, 11633, "L", 11647, 11648, "NSM", 11648, 11671, "L", 11680,
      11687, "L", 11688, 11695, "L", 11696, 11703, "L", 11704, 11711, "L", 11712, 11719, "L", 11720,
      11727, "L", 11728, 11735, "L", 11736, 11743, "L", 11744, 11776, "NSM", 11776, 11870, "ON",
      11904, 11930, "ON", 11931, 12020, "ON", 12032, 12246, "ON", 12272, 12284, "ON", 12288, 12289,
      "WS", 12289, 12293, "ON", 12293, 12296, "L", 12296, 12321, "ON", 12321, 12330, "L", 12330,
      12334, "NSM", 12334, 12336, "L", 12336, 12337, "ON", 12337, 12342, "L", 12342, 12344, "ON",
      12344, 12349, "L", 12349, 12352, "ON", 12353, 12439, "L", 12441, 12443, "NSM", 12443, 12445,
      "ON", 12445, 12448, "L", 12448, 12449, "ON", 12449, 12539, "L", 12539, 12540, "ON", 12540,
      12544, "L", 12549, 12592, "L", 12593, 12687, "L", 12688, 12736, "L", 12736, 12772, "ON",
      12784, 12829, "L", 12829, 12831, "ON", 12832, 12880, "L", 12880, 12896, "ON", 12896, 12924,
      "L", 12924, 12927, "ON", 12927, 12977, "L", 12977, 12992, "ON", 12992, 13004, "L", 13004,
      13008, "ON", 13008, 13175, "L", 13175, 13179, "ON", 13179, 13278, "L", 13278, 13280, "ON",
      13280, 13311, "L", 13311, 13312, "ON", 13312, 19904, "L", 19904, 19968, "ON", 19968, 42125,
      "L", 42128, 42183, "ON", 42192, 42509, "L", 42509, 42512, "ON", 42512, 42540, "L", 42560,
      42607, "L", 42607, 42611, "NSM", 42611, 42612, "ON", 42612, 42622, "NSM", 42622, 42624, "ON",
      42624, 42654, "L", 42654, 42656, "NSM", 42656, 42736, "L", 42736, 42738, "NSM", 42738, 42744,
      "L", 42752, 42786, "ON", 42786, 42888, "L", 42888, 42889, "ON", 42889, 42955, "L", 42960,
      42962, "L", 42963, 42964, "L", 42965, 42970, "L", 42994, 43010, "L", 43010, 43011, "NSM",
      43011, 43014, "L", 43014, 43015, "NSM", 43015, 43019, "L", 43019, 43020, "NSM", 43020, 43045,
      "L", 43045, 43047, "NSM", 43047, 43048, "L", 43048, 43052, "ON", 43052, 43053, "NSM", 43056,
      43064, "L", 43064, 43066, "ET", 43072, 43124, "L", 43124, 43128, "ON", 43136, 43204, "L",
      43204, 43206, "NSM", 43214, 43226, "L", 43232, 43250, "NSM", 43250, 43263, "L", 43263, 43264,
      "NSM", 43264, 43302, "L", 43302, 43310, "NSM", 43310, 43335, "L", 43335, 43346, "NSM", 43346,
      43348, "L", 43359, 43389, "L", 43392, 43395, "NSM", 43395, 43443, "L", 43443, 43444, "NSM",
      43444, 43446, "L", 43446, 43450, "NSM", 43450, 43452, "L", 43452, 43454, "NSM", 43454, 43470,
      "L", 43471, 43482, "L", 43486, 43493, "L", 43493, 43494, "NSM", 43494, 43519, "L", 43520,
      43561, "L", 43561, 43567, "NSM", 43567, 43569, "L", 43569, 43571, "NSM", 43571, 43573, "L",
      43573, 43575, "NSM", 43584, 43587, "L", 43587, 43588, "NSM", 43588, 43596, "L", 43596, 43597,
      "NSM", 43597, 43598, "L", 43600, 43610, "L", 43612, 43644, "L", 43644, 43645, "NSM", 43645,
      43696, "L", 43696, 43697, "NSM", 43697, 43698, "L", 43698, 43701, "NSM", 43701, 43703, "L",
      43703, 43705, "NSM", 43705, 43710, "L", 43710, 43712, "NSM", 43712, 43713, "L", 43713, 43714,
      "NSM", 43714, 43715, "L", 43739, 43756, "L", 43756, 43758, "NSM", 43758, 43766, "L", 43766,
      43767, "NSM", 43777, 43783, "L", 43785, 43791, "L", 43793, 43799, "L", 43808, 43815, "L",
      43816, 43823, "L", 43824, 43882, "L", 43882, 43884, "ON", 43888, 44005, "L", 44005, 44006,
      "NSM", 44006, 44008, "L", 44008, 44009, "NSM", 44009, 44013, "L", 44013, 44014, "NSM", 44016,
      44026, "L", 44032, 55204, "L", 55216, 55239, "L", 55243, 55292, "L", 55296, 64110, "L", 64112,
      64218, "L", 64256, 64263, "L", 64275, 64280, "L", 64285, 64286, "R", 64286, 64287, "NSM",
      64287, 64297, "R", 64297, 64298, "ES", 64298, 64311, "R", 64312, 64317, "R", 64318, 64319,
      "R", 64320, 64322, "R", 64323, 64325, "R", 64326, 64336, "R", 64336, 64451, "AL", 64467,
      64830, "AL", 64830, 64848, "ON", 64848, 64912, "AL", 64914, 64968, "AL", 64975, 64976, "ON",
      65008, 65021, "AL", 65021, 65024, "ON", 65024, 65040, "NSM", 65040, 65050, "ON", 65056, 65072,
      "NSM", 65072, 65104, "ON", 65104, 65105, "CS", 65105, 65106, "ON", 65106, 65107, "CS", 65108,
      65109, "ON", 65109, 65110, "CS", 65110, 65119, "ON", 65119, 65120, "ET", 65120, 65122, "ON",
      65122, 65124, "ES", 65124, 65127, "ON", 65128, 65129, "ON", 65129, 65131, "ET", 65131, 65132,
      "ON", 65136, 65141, "AL", 65142, 65277, "AL", 65279, 65280, "BN", 65281, 65283, "ON", 65283,
      65286, "ET", 65286, 65291, "ON", 65291, 65292, "ES", 65292, 65293, "CS", 65293, 65294, "ES",
      65294, 65296, "CS", 65296, 65306, "EN", 65306, 65307, "CS", 65307, 65313, "ON", 65313, 65339,
      "L", 65339, 65345, "ON", 65345, 65371, "L", 65371, 65382, "ON", 65382, 65471, "L", 65474,
      65480, "L", 65482, 65488, "L", 65490, 65496, "L", 65498, 65501, "L", 65504, 65506, "ET",
      65506, 65509, "ON", 65509, 65511, "ET", 65512, 65519, "ON", 65529, 65534, "ON", 65536, 65548,
      "L", 65549, 65575, "L", 65576, 65595, "L", 65596, 65598, "L", 65599, 65614, "L", 65616, 65630,
      "L", 65664, 65787, "L", 65792, 65793, "L", 65793, 65794, "ON", 65794, 65795, "L", 65799,
      65844, "L", 65847, 65856, "L", 65856, 65933, "ON", 65933, 65935, "L", 65936, 65949, "ON",
      65952, 65953, "ON", 66000, 66045, "L", 66045, 66046, "NSM", 66176, 66205, "L", 66208, 66257,
      "L", 66272, 66273, "NSM", 66273, 66300, "EN", 66304, 66340, "L", 66349, 66379, "L", 66384,
      66422, "L", 66422, 66427, "NSM", 66432, 66462, "L", 66463, 66500, "L", 66504, 66518, "L",
      66560, 66718, "L", 66720, 66730, "L", 66736, 66772, "L", 66776, 66812, "L", 66816, 66856, "L",
      66864, 66916, "L", 66927, 66939, "L", 66940, 66955, "L", 66956, 66963, "L", 66964, 66966, "L",
      66967, 66978, "L", 66979, 66994, "L", 66995, 67002, "L", 67003, 67005, "L", 67072, 67383, "L",
      67392, 67414, "L", 67424, 67432, "L", 67456, 67462, "L", 67463, 67505, "L", 67506, 67515, "L",
      67584, 67590, "R", 67592, 67593, "R", 67594, 67638, "R", 67639, 67641, "R", 67644, 67645, "R",
      67647, 67670, "R", 67671, 67743, "R", 67751, 67760, "R", 67808, 67827, "R", 67828, 67830, "R",
      67835, 67868, "R", 67871, 67872, "ON", 67872, 67898, "R", 67903, 67904, "R", 67968, 68024,
      "R", 68028, 68048, "R", 68050, 68097, "R", 68097, 68100, "NSM", 68101, 68103, "NSM", 68108,
      68112, "NSM", 68112, 68116, "R", 68117, 68120, "R", 68121, 68150, "R", 68152, 68155, "NSM",
      68159, 68160, "NSM", 68160, 68169, "R", 68176, 68185, "R", 68192, 68256, "R", 68288, 68325,
      "R", 68325, 68327, "NSM", 68331, 68343, "R", 68352, 68406, "R", 68409, 68416, "ON", 68416,
      68438, "R", 68440, 68467, "R", 68472, 68498, "R", 68505, 68509, "R", 68521, 68528, "R", 68608,
      68681, "R", 68736, 68787, "R", 68800, 68851, "R", 68858, 68864, "R", 68864, 68900, "AL",
      68900, 68904, "NSM", 68912, 68922, "AN", 69216, 69247, "AN", 69248, 69290, "R", 69291, 69293,
      "NSM", 69293, 69294, "R", 69296, 69298, "R", 69376, 69416, "R", 69424, 69446, "AL", 69446,
      69457, "NSM", 69457, 69466, "AL", 69488, 69506, "R", 69506, 69510, "NSM", 69510, 69514, "R",
      69552, 69580, "R", 69600, 69623, "R", 69632, 69633, "L", 69633, 69634, "NSM", 69634, 69688,
      "L", 69688, 69703, "NSM", 69703, 69710, "L", 69714, 69734, "ON", 69734, 69744, "L", 69744,
      69745, "NSM", 69745, 69747, "L", 69747, 69749, "NSM", 69749, 69750, "L", 69759, 69762, "NSM",
      69762, 69811, "L", 69811, 69815, "NSM", 69815, 69817, "L", 69817, 69819, "NSM", 69819, 69826,
      "L", 69826, 69827, "NSM", 69837, 69838, "L", 69840, 69865, "L", 69872, 69882, "L", 69888,
      69891, "NSM", 69891, 69927, "L", 69927, 69932, "NSM", 69932, 69933, "L", 69933, 69941, "NSM",
      69942, 69960, "L", 69968, 70003, "L", 70003, 70004, "NSM", 70004, 70007, "L", 70016, 70018,
      "NSM", 70018, 70070, "L", 70070, 70079, "NSM", 70079, 70089, "L", 70089, 70093, "NSM", 70093,
      70095, "L", 70095, 70096, "NSM", 70096, 70112, "L", 70113, 70133, "L", 70144, 70162, "L",
      70163, 70191, "L", 70191, 70194, "NSM", 70194, 70196, "L", 70196, 70197, "NSM", 70197, 70198,
      "L", 70198, 70200, "NSM", 70200, 70206, "L", 70206, 70207, "NSM", 70272, 70279, "L", 70280,
      70281, "L", 70282, 70286, "L", 70287, 70302, "L", 70303, 70314, "L", 70320, 70367, "L", 70367,
      70368, "NSM", 70368, 70371, "L", 70371, 70379, "NSM", 70384, 70394, "L", 70400, 70402, "NSM",
      70402, 70404, "L", 70405, 70413, "L", 70415, 70417, "L", 70419, 70441, "L", 70442, 70449, "L",
      70450, 70452, "L", 70453, 70458, "L", 70459, 70461, "NSM", 70461, 70464, "L", 70464, 70465,
      "NSM", 70465, 70469, "L", 70471, 70473, "L", 70475, 70478, "L", 70480, 70481, "L", 70487,
      70488, "L", 70493, 70500, "L", 70502, 70509, "NSM", 70512, 70517, "NSM", 70656, 70712, "L",
      70712, 70720, "NSM", 70720, 70722, "L", 70722, 70725, "NSM", 70725, 70726, "L", 70726, 70727,
      "NSM", 70727, 70748, "L", 70749, 70750, "L", 70750, 70751, "NSM", 70751, 70754, "L", 70784,
      70835, "L", 70835, 70841, "NSM", 70841, 70842, "L", 70842, 70843, "NSM", 70843, 70847, "L",
      70847, 70849, "NSM", 70849, 70850, "L", 70850, 70852, "NSM", 70852, 70856, "L", 70864, 70874,
      "L", 71040, 71090, "L", 71090, 71094, "NSM", 71096, 71100, "L", 71100, 71102, "NSM", 71102,
      71103, "L", 71103, 71105, "NSM", 71105, 71132, "L", 71132, 71134, "NSM", 71168, 71219, "L",
      71219, 71227, "NSM", 71227, 71229, "L", 71229, 71230, "NSM", 71230, 71231, "L", 71231, 71233,
      "NSM", 71233, 71237, "L", 71248, 71258, "L", 71264, 71277, "ON", 71296, 71339, "L", 71339,
      71340, "NSM", 71340, 71341, "L", 71341, 71342, "NSM", 71342, 71344, "L", 71344, 71350, "NSM",
      71350, 71351, "L", 71351, 71352, "NSM", 71352, 71354, "L", 71360, 71370, "L", 71424, 71451,
      "L", 71453, 71456, "NSM", 71456, 71458, "L", 71458, 71462, "NSM", 71462, 71463, "L", 71463,
      71468, "NSM", 71472, 71495, "L", 71680, 71727, "L", 71727, 71736, "NSM", 71736, 71737, "L",
      71737, 71739, "NSM", 71739, 71740, "L", 71840, 71923, "L", 71935, 71943, "L", 71945, 71946,
      "L", 71948, 71956, "L", 71957, 71959, "L", 71960, 71990, "L", 71991, 71993, "L", 71995, 71997,
      "NSM", 71997, 71998, "L", 71998, 71999, "NSM", 71999, 72003, "L", 72003, 72004, "NSM", 72004,
      72007, "L", 72016, 72026, "L", 72096, 72104, "L", 72106, 72148, "L", 72148, 72152, "NSM",
      72154, 72156, "NSM", 72156, 72160, "L", 72160, 72161, "NSM", 72161, 72165, "L", 72192, 72193,
      "L", 72193, 72199, "NSM", 72199, 72201, "L", 72201, 72203, "NSM", 72203, 72243, "L", 72243,
      72249, "NSM", 72249, 72251, "L", 72251, 72255, "NSM", 72255, 72263, "L", 72263, 72264, "NSM",
      72272, 72273, "L", 72273, 72279, "NSM", 72279, 72281, "L", 72281, 72284, "NSM", 72284, 72330,
      "L", 72330, 72343, "NSM", 72343, 72344, "L", 72344, 72346, "NSM", 72346, 72355, "L", 72368,
      72441, "L", 72704, 72713, "L", 72714, 72752, "L", 72752, 72759, "NSM", 72760, 72766, "NSM",
      72766, 72774, "L", 72784, 72813, "L", 72816, 72848, "L", 72850, 72872, "NSM", 72873, 72874,
      "L", 72874, 72881, "NSM", 72881, 72882, "L", 72882, 72884, "NSM", 72884, 72885, "L", 72885,
      72887, "NSM", 72960, 72967, "L", 72968, 72970, "L", 72971, 73009, "L", 73009, 73015, "NSM",
      73018, 73019, "NSM", 73020, 73022, "NSM", 73023, 73030, "NSM", 73030, 73031, "L", 73031,
      73032, "NSM", 73040, 73050, "L", 73056, 73062, "L", 73063, 73065, "L", 73066, 73103, "L",
      73104, 73106, "NSM", 73107, 73109, "L", 73109, 73110, "NSM", 73110, 73111, "L", 73111, 73112,
      "NSM", 73112, 73113, "L", 73120, 73130, "L", 73440, 73459, "L", 73459, 73461, "NSM", 73461,
      73465, "L", 73648, 73649, "L", 73664, 73685, "L", 73685, 73693, "ON", 73693, 73697, "ET",
      73697, 73714, "ON", 73727, 74650, "L", 74752, 74863, "L", 74864, 74869, "L", 74880, 75076,
      "L", 77712, 77811, "L", 77824, 78895, "L", 78896, 78905, "L", 82944, 83527, "L", 92160, 92729,
      "L", 92736, 92767, "L", 92768, 92778, "L", 92782, 92863, "L", 92864, 92874, "L", 92880, 92910,
      "L", 92912, 92917, "NSM", 92917, 92918, "L", 92928, 92976, "L", 92976, 92983, "NSM", 92983,
      92998, "L", 93008, 93018, "L", 93019, 93026, "L", 93027, 93048, "L", 93053, 93072, "L", 93760,
      93851, "L", 93952, 94027, "L", 94031, 94032, "NSM", 94032, 94088, "L", 94095, 94099, "NSM",
      94099, 94112, "L", 94176, 94178, "L", 94178, 94179, "ON", 94179, 94180, "L", 94180, 94181,
      "NSM", 94192, 94194, "L", 94208, 100344, "L", 100352, 101590, "L", 101632, 101641, "L",
      110576, 110580, "L", 110581, 110588, "L", 110589, 110591, "L", 110592, 110883, "L", 110928,
      110931, "L", 110948, 110952, "L", 110960, 111356, "L", 113664, 113771, "L", 113776, 113789,
      "L", 113792, 113801, "L", 113808, 113818, "L", 113820, 113821, "L", 113821, 113823, "NSM",
      113823, 113824, "L", 113824, 113828, "BN", 118528, 118574, "NSM", 118576, 118599, "NSM",
      118608, 118724, "L", 118784, 119030, "L", 119040, 119079, "L", 119081, 119143, "L", 119143,
      119146, "NSM", 119146, 119155, "L", 119155, 119163, "BN", 119163, 119171, "NSM", 119171,
      119173, "L", 119173, 119180, "NSM", 119180, 119210, "L", 119210, 119214, "NSM", 119214,
      119273, "L", 119273, 119275, "ON", 119296, 119362, "ON", 119362, 119365, "NSM", 119365,
      119366, "ON", 119520, 119540, "L", 119552, 119639, "ON", 119648, 119673, "L", 119808, 119893,
      "L", 119894, 119965, "L", 119966, 119968, "L", 119970, 119971, "L", 119973, 119975, "L",
      119977, 119981, "L", 119982, 119994, "L", 119995, 119996, "L", 119997, 120004, "L", 120005,
      120070, "L", 120071, 120075, "L", 120077, 120085, "L", 120086, 120093, "L", 120094, 120122,
      "L", 120123, 120127, "L", 120128, 120133, "L", 120134, 120135, "L", 120138, 120145, "L",
      120146, 120486, "L", 120488, 120539, "L", 120539, 120540, "ON", 120540, 120597, "L", 120597,
      120598, "ON", 120598, 120655, "L", 120655, 120656, "ON", 120656, 120713, "L", 120713, 120714,
      "ON", 120714, 120771, "L", 120771, 120772, "ON", 120772, 120780, "L", 120782, 120832, "EN",
      120832, 121344, "L", 121344, 121399, "NSM", 121399, 121403, "L", 121403, 121453, "NSM",
      121453, 121461, "L", 121461, 121462, "NSM", 121462, 121476, "L", 121476, 121477, "NSM",
      121477, 121484, "L", 121499, 121504, "NSM", 121505, 121520, "NSM", 122624, 122655, "L",
      122880, 122887, "NSM", 122888, 122905, "NSM", 122907, 122914, "NSM", 122915, 122917, "NSM",
      122918, 122923, "NSM", 123136, 123181, "L", 123184, 123191, "NSM", 123191, 123198, "L",
      123200, 123210, "L", 123214, 123216, "L", 123536, 123566, "L", 123566, 123567, "NSM", 123584,
      123628, "L", 123628, 123632, "NSM", 123632, 123642, "L", 123647, 123648, "ET", 124896, 124903,
      "L", 124904, 124908, "L", 124909, 124911, "L", 124912, 124927, "L", 124928, 125125, "R",
      125127, 125136, "R", 125136, 125143, "NSM", 125184, 125252, "R", 125252, 125259, "NSM",
      125259, 125260, "R", 125264, 125274, "R", 125278, 125280, "R", 126065, 126133, "AL", 126209,
      126270, "AL", 126464, 126468, "AL", 126469, 126496, "AL", 126497, 126499, "AL", 126500,
      126501, "AL", 126503, 126504, "AL", 126505, 126515, "AL", 126516, 126520, "AL", 126521,
      126522, "AL", 126523, 126524, "AL", 126530, 126531, "AL", 126535, 126536, "AL", 126537,
      126538, "AL", 126539, 126540, "AL", 126541, 126544, "AL", 126545, 126547, "AL", 126548,
      126549, "AL", 126551, 126552, "AL", 126553, 126554, "AL", 126555, 126556, "AL", 126557,
      126558, "AL", 126559, 126560, "AL", 126561, 126563, "AL", 126564, 126565, "AL", 126567,
      126571, "AL", 126572, 126579, "AL", 126580, 126584, "AL", 126585, 126589, "AL", 126590,
      126591, "AL", 126592, 126602, "AL", 126603, 126620, "AL", 126625, 126628, "AL", 126629,
      126634, "AL", 126635, 126652, "AL", 126704, 126706, "ON", 126976, 127020, "ON", 127024,
      127124, "ON", 127136, 127151, "ON", 127153, 127168, "ON", 127169, 127184, "ON", 127185,
      127222, "ON", 127232, 127243, "EN", 127243, 127248, "ON", 127248, 127279, "L", 127279, 127280,
      "ON", 127280, 127338, "L", 127338, 127344, "ON", 127344, 127405, "L", 127405, 127406, "ON",
      127462, 127491, "L", 127504, 127548, "L", 127552, 127561, "L", 127568, 127570, "L", 127584,
      127590, "ON", 127744, 128728, "ON", 128733, 128749, "ON", 128752, 128765, "ON", 128768,
      128884, "ON", 128896, 128985, "ON", 128992, 129004, "ON", 129008, 129009, "ON", 129024,
      129036, "ON", 129040, 129096, "ON", 129104, 129114, "ON", 129120, 129160, "ON", 129168,
      129198, "ON", 129200, 129202, "ON", 129280, 129620, "ON", 129632, 129646, "ON", 129648,
      129653, "ON", 129656, 129661, "ON", 129664, 129671, "ON", 129680, 129709, "ON", 129712,
      129723, "ON", 129728, 129734, "ON", 129744, 129754, "ON", 129760, 129768, "ON", 129776,
      129783, "ON", 129792, 129939, "ON", 129940, 129995, "ON", 130032, 130042, "EN", 131072,
      173792, "L", 173824, 177977, "L", 177984, 178206, "L", 178208, 183970, "L", 183984, 191457,
      "L", 194560, 195102, "L", 196608, 201547, "L", 917505, 917506, "BN", 917536, 917632, "BN",
      917760, 918000, "NSM", 983040, 1048574, "L", 1048576, 1114110, "L">>

\* the code points whose unicodedata.category starts with 'M'
MarkRanges ==
    <<768, 880, 1155, 1162, 1425, 1470, 1471, 1472, 1473, 1475, 1476, 1478, 1479, 1480, 1552, 1563,
      1611, 1632, 1648, 1649, 1750, 1757, 1759, 1765, 1767, 1769, 1770, 1774, 1809, 1810, 1840,
      1867, 1958, 1969, 2027, 2036, 2045, 2046, 2070, 2074, 2075, 2084, 2085, 2088, 2089, 2094,
      2137, 2140, 2200, 2208, 2250, 2274, 2275, 2308, 2362, 2365, 2366, 2384, 2385, 2392, 2402,
      2404, 2433, 2436, 2492, 2493, 2494, 2501, 2503, 2505, 2507, 2510, 2519, 2520, 2530, 2532,
      2558, 2559, 2561, 2564, 2620, 2621, 2622, 2627, 2631, 2633, 2635, 2638, 2641, 2642, 2672,
      2674, 2677, 2678, 2689, 2692, 2748, 2749, 2750, 2758, 2759, 2762, 2763, 2766, 2786, 2788,
      2810, 2816, 2817, 2820, 2876, 2877, 2878, 2885, 2887, 2889, 2891, 2894, 2901, 2904, 2914,
      2916, 2946, 2947, 3006, 3011, 3014, 3017, 3018, 3022, 3031, 3032, 3072, 3077, 3132, 3133,
      3134, 3141, 3142, 3145, 3146, 3150, 3157, 3159, 3170, 3172, 3201, 3204, 3260, 3261, 3262,
      3269, 3270, 3273, 3274, 3278, 3285, 3287, 3298, 3300, 3328, 3332, 3387, 3389, 3390, 3397,
      3398, 3401, 3402, 3406, 3415, 3416, 3426, 3428, 3457, 3460, 3530, 3531, 3535, 3541, 3542,
      3543, 3544, 3552, 3570, 3572, 3633, 3634, 3636, 3643, 3655, 3663, 3761, 3762, 3764, 3773,
      3784, 3790, 3864, 3866, 3893, 3894, 3895, 3896, 3897, 3898, 3902, 3904, 3953, 3973, 3974,
      3976, 3981, 3992, 3993, 4029, 4038, 4039, 4139, 4159, 4182, 4186, 4190, 4193, 4194, 4197,
      4199, 4206, 4209, 4213, 4226, 4238, 4239, 4240, 4250, 4254, 4957, 4960, 5906, 5910, 5938,
      5941, 5970, 5972, 6002, 6004, 6068, 6100, 6109, 6110, 6155, 6158, 6159, 6160, 6277, 6279,
      6313, 6314, 6432, 6444, 6448, 6460, 6679, 6684, 6741, 6751, 6752, 6781, 6783, 6784, 6832,
      6863, 6912, 6917, 6964, 6981, 7019, 7028, 7040, 7043, 7073, 7086, 7142, 7156, 7204, 7224,
      7376, 7379, 7380, 7401, 7405, 7406, 7412, 7413, 7415, 7418, 7616, 7680, 8400, 8433, 11503,
      11506, 11647, 11648, 11744, 11776, 12330, 12336, 12441, 12443, 42607, 42611, 42612, 42622,
      42654, 42656, 42736, 42738, 43010, 43011, 43014, 43015, 43019, 43020, 43043, 43048, 43052,
      43053, 43136, 43138, 43188, 43206, 43232, 43250, 43263, 43264, 43302, 43310, 43335, 43348,
      43392, 43396, 43443, 43457, 43493, 43494, 43561, 43575, 43587, 43588, 43596, 43598, 43643,
      43646, 43696, 43697, 43698, 43701, 43703, 43705, 43710, 43712, 43713, 43714, 43755, 43760,
      43765, 43767, 44003, 44011, 44012, 44014, 64286, 64287, 65024, 65040, 65056, 65072, 66045,
      66046, 66272, 66273, 66422, 66427, 68097, 68100, 68101, 68103, 68108, 68112, 68152, 68155,
      68159, 68160, 68325, 68327, 68900, 68904, 69291, 69293, 69446, 69457, 69506, 69510, 69632,
      69635, 69688, 69703, 69744, 69745, 69747, 69749, 69759, 69763, 69808, 69819, 69826, 69827,
      69888, 69891, 69927, 69941, 69957, 69959, 70003, 70004, 70016, 70019, 70067, 70081, 70089,
      70093, 70094, 70096, 70188, 70200, 70206, 70207, 70367, 70379, 70400, 70404, 70459, 70461,
      70462, 70469, 70471, 70473, 70475, 70478, 70487, 70488, 70498, 70500, 70502, 70509, 70512,
      70517, 70709, 70727, 70750, 70751, 70832, 70852, 71087, 71094, 71096, 71105, 71132, 71134,
      71216, 71233, 71339, 71352, 71453, 71468, 71724, 71739, 71984, 71990, 71991, 71993, 71995,
      71999, 72000, 72001, 72002, 72004, 72145, 72152, 72154, 72161, 72164, 72165, 72193, 72203,
      72243, 72250, 72251, 72255, 72263, 72264, 72273, 72284, 72330, 72346, 72751, 72759, 72760,
      72768, 72850, 72872, 72873, 72887, 73009, 73015, 73018, 73019, 73020, 73022, 73023, 73030,
      73031, 73032, 73098, 73103, 73104, 73106, 73107, 73112, 73459, 73463, 92912, 92917, 92976,
      92983, 94031, 94032, 94033, 94088, 94095, 94099, 94180, 94181, 94192, 94194, 113821, 113823,
      118528, 118574, 118576, 118599, 119141, 119146, 119149, 119155, 119163, 119171, 119173,
      119180, 119210, 119214, 119362, 119365, 121344, 121399, 121403, 121453, 121461, 121462,
      121476, 121477, 121499, 121504, 121505, 121520, 122880, 122887, 122888, 122905, 122907,
      122914, 122915, 122917, 122918, 122923, 123184, 123191, 123566, 123567, 123628, 123632,
      125136, 125143, 125252, 125259, 917760, 918000>>

\* unicodedata.combining: rows start, end, class of the ranges of code points
\* whose canonical combining class is not 0
CombiningClasses ==
    <<768, 789, 230, 789, 790, 232, 790, 794, 220, 794, 795, 232, 795, 796, 216, 796, 801, 220, 801,
      803, 202, 803, 807, 220, 807, 809, 202, 809, 820, 220, 820, 825, 1, 825, 829, 220, 829, 837,
      230, 837, 838, 240, 838, 839, 230, 839, 842, 220, 842, 845, 230, 845, 847, 220, 848, 851, 230,
      851, 855, 220, 855, 856, 230, 856, 857, 232, 857, 859, 220, 859, 860, 230, 860, 861, 233, 861,
      863, 234, 863, 864, 233, 864, 866, 234, 866, 867, 233, 867, 880, 230, 1155, 1160, 230, 1425,
      1426, 220, 1426, 1430, 230, 1430, 1431, 220, 1431, 1434, 230, 1434, 1435, 222, 1435, 1436,
      220, 1436, 1442, 230, 1442, 1448, 220, 1448, 1450, 230, 1450, 1451, 220, 1451, 1453, 230,
      1453, 1454, 222, 1454, 1455, 228, 1455, 1456, 230, 1456, 1457, 10, 1457, 1458, 11, 1458, 1459,
      12, 1459, 1460, 13, 1460, 1461, 14, 1461, 1462, 15, 1462, 1463, 16, 1463, 1464, 17, 1464,
      1465, 18, 1465, 1467, 19, 1467, 1468, 20, 1468, 1469, 21, 1469, 1470, 22, 1471, 1472, 23,
      1473, 1474, 24, 1474, 1475, 25, 1476, 1477, 230, 1477, 1478, 220, 1479, 1480, 18, 1552, 1560,
      230, 1560, 1561, 30, 1561, 1562, 31, 1562, 1563, 32, 1611, 1612, 27, 1612, 1613, 28, 1613,
      1614, 29, 1614, 1615, 30, 1615, 1616, 31, 1616, 1617, 32, 1617, 1618, 33, 1618, 1619, 34,
      1619, 1621, 230, 1621, 1623, 220, 1623, 1628, 230, 1628, 1629, 220, 1629, 1631, 230, 1631,
      1632, 220, 1648, 1649, 35, 1750, 1757, 230, 1759, 1763, 230, 1763, 1764, 220, 1764, 1765, 230,
      1767, 1769, 230, 1770, 1771, 220, 1771, 1773, 230, 1773, 1774, 220, 1809, 1810, 36, 1840,
      1841, 230, 1841, 1842, 220, 1842, 1844, 230, 1844, 1845, 220, 1845, 1847, 230, 1847, 1850,
      220, 1850, 1851, 230, 1851, 1853, 220, 1853, 1854, 230, 1854, 1855, 220, 1855, 1858, 230,
      1858, 1859, 220, 1859, 1860, 230, 1860, 1861, 220, 1861, 1862, 230, 1862, 1863, 220, 1863,
      1864, 230, 1864, 1865, 220, 1865, 1867, 230, 2027, 2034, 230, 2034, 2035, 220, 2035, 2036,
      230, 2045, 2046, 220, 2070, 2074, 230, 2075, 2084, 230, 2085, 2088, 230, 2089, 2094, 230,
      2137, 2140, 220, 2200, 2201, 230, 2201, 2204, 220, 2204, 2208, 230, 2250, 2255, 230, 2255,
      2260, 220, 2260, 2274, 230, 2275, 2276, 220, 2276, 2278, 230, 2278, 2279, 220, 2279, 2281,
      230, 2281, 2282, 220, 2282, 2285, 230, 2285, 2288, 220, 2288, 2289, 27, 2289, 2290, 28, 2290,
      2291, 29, 2291, 2294, 230, 2294, 2295, 220, 2295, 2297, 230, 2297, 2299, 220, 2299, 2304, 230,
      2364, 2365, 7, 2381, 2382, 9, 2385, 2386, 230, 2386, 2387, 220, 2387, 2389, 230, 2492, 2493,
      7, 2509, 2510, 9, 2558, 2559, 230, 2620, 2621, 7, 2637, 2638, 9, 2748, 2749, 7, 2765, 2766, 9,
      2876, 2877, 7, 2893, 2894, 9, 3021, 3022, 9, 3132, 3133, 7, 3149, 3150, 9, 3157, 3158, 84,
      3158, 3159, 91, 3260, 3261, 7, 3277, 3278, 9, 3387, 3389, 9, 3405, 3406, 9, 3530, 3531, 9,
      3640, 3642, 103, 3642, 3643, 9, 3656, 3660, 107, 3768, 3770, 118, 3770, 3771, 9, 3784, 3788,
      122, 3864, 3866, 220, 3893, 3894, 220, 3895, 3896, 220, 3897, 3898, 216, 3953, 3954, 129,
      3954, 3955, 130, 3956, 3957, 132, 3962, 3966, 130, 3968, 3969, 130, 3970, 3972, 230, 3972,
      3973, 9, 3974, 3976, 230, 4038, 4039, 220, 4151, 4152, 7, 4153, 4155, 9, 4237, 4238, 220,
      4957, 4960, 230, 5908, 5910, 9, 5940, 5941, 9, 6098, 6099, 9, 6109, 6110, 230, 6313, 6314,
      228, 6457, 6458, 222, 6458, 6459, 230, 6459, 6460, 220, 6679, 6680, 230, 6680, 6681, 220,
      6752, 6753, 9, 6773, 6781, 230, 6783, 6784, 220, 6832, 6837, 230, 6837, 6843, 220, 6843, 6845,
      230, 6845, 6846, 220, 6847, 6849, 220, 6849, 6851, 230, 6851, 6853, 220, 6853, 6858, 230,
      6858, 6859, 220, 6859, 6863, 230, 6964, 6965, 7, 6980, 6981, 9, 7019, 7020, 230, 7020, 7021,
      220, 7021, 7028, 230, 7082, 7084, 9, 7142, 7143, 7, 7154, 7156, 9, 7223, 7224, 7, 7376, 7379,
      230, 7380, 7381, 1, 7381, 7386, 220, 7386, 7388, 230, 7388, 7392, 220, 7392, 7393, 230, 7394,
      7401, 1, 7405, 7406, 220, 7412, 7413, 230, 7416, 7418, 230, 7616, 7618, 230, 7618, 7619, 220,
      7619, 7626, 230, 7626, 7627, 220, 7627, 7629, 230, 7629, 7630, 234, 7630, 7631, 214, 7631,
      7632, 220, 7632, 7633, 202, 7633, 7670, 230, 7670, 7671, 232, 7671, 7673, 228, 7673, 7674,
      220, 7674, 7675, 218, 7675, 7676, 230, 7676, 7677, 233, 7677, 7678, 220, 7678, 7679, 230,
      7679, 7680, 220, 8400, 8402, 230, 8402, 8404, 1, 8404, 8408, 230, 8408, 8411, 1, 8411, 8413,
      230, 8417, 8418, 230, 8421, 8423, 1, 8423, 8424, 230, 8424, 8425, 220, 8425, 8426, 230, 8426,
      8428, 1, 8428, 8432, 220, 8432, 8433, 230, 11503, 11506, 230, 11647, 11648, 9, 11744, 11776,
      230, 12330, 12331, 218, 12331, 12332, 228, 12332, 12333, 232, 12333, 12334, 222, 12334, 12336,
      224, 12441, 12443, 8, 42607, 42608, 230, 42612, 42622, 230, 42654, 42656, 230, 42736, 42738,
      230, 43014, 43015, 9, 43052, 43053, 9, 43204, 43205, 9, 43232, 43250, 230, 43307, 43310, 220,
      43347, 43348, 9, 43443, 43444, 7, 43456, 43457, 9, 43696, 43697, 230, 43698, 43700, 230,
      43700, 43701, 220, 43703, 43705, 230, 43710, 43712, 230, 43713, 43714, 230, 43766, 43767, 9,
      44013, 44014, 9, 64286, 64287, 26, 65056, 65063, 230, 65063, 65070, 220, 65070, 65072, 230,
      66045, 66046, 220, 66272, 66273, 220, 66422, 66427, 230, 68109, 68110, 220, 68111, 68112, 230,
      68152, 68153, 230, 68153, 68154, 1, 68154, 68155, 220, 68159, 68160, 9, 68325, 68326, 230,
      68326, 68327, 220, 68900, 68904, 230, 69291, 69293, 230, 69446, 69448, 220, 69448, 69451, 230,
      69451, 69452, 220, 69452, 69453, 230, 69453, 69457, 220, 69506, 69507, 230, 69507, 69508, 220,
      69508, 69509, 230, 69509, 69510, 220, 69702, 69703, 9, 69744, 69745, 9, 69759, 69760, 9,
      69817, 69818, 9, 69818, 69819, 7, 69888, 69891, 230, 69939, 69941, 9, 70003, 70004, 7, 70080,
      70081, 9, 70090, 70091, 7, 70197, 70198, 9, 70198, 70199, 7, 70377, 70378, 7, 70378, 70379, 9,
      70459, 70461, 7, 70477, 70478, 9, 70502, 70509, 230, 70512, 70517, 230, 70722, 70723, 9,
      70726, 70727, 7, 70750, 70751, 230, 70850, 70851, 9, 70851, 70852, 7, 71103, 71104, 9, 71104,
      71105, 7, 71231, 71232, 9, 71350, 71351, 9, 71351, 71352, 7, 71467, 71468, 9, 71737, 71738, 9,
      71738, 71739, 7, 71997, 71999, 9, 72003, 72004, 7, 72160, 72161, 9, 72244, 72245, 9, 72263,
      72264, 9, 72345, 72346, 9, 72767, 72768, 9, 73026, 73027, 7, 73028, 73030, 9, 73111, 73112, 9,
      92912, 92917, 1, 92976, 92983, 230, 94192, 94194, 6, 113822, 113823, 1, 119141, 119143, 216,
      119143, 119146, 1, 119149, 119150, 226, 119150, 119155, 216, 119163, 119171, 220, 119173,
      119178, 230, 119178, 119180, 220, 119210, 119214, 230, 119362, 119365, 230, 122880, 122887,
      230, 122888, 122905, 230, 122907, 122914, 230, 122915, 122917, 230, 122918, 122923, 230,
      123184, 123191, 230, 123566, 123567, 230, 123628, 123632, 230, 125136, 125143, 220, 125252,
      125258, 230, 125258, 125259, 7>>

\* the assigned code points for which unicodedata.name raises ValueError:
\* controls, surrogates, private use and the ideographs Python has no names for
UnnamedAssigned ==
    <<0, 32, 127, 160, 55296, 63744, 94208, 100344, 101632, 101641, 983040, 1048574, 1048576,
      1114110>>

\* unicodedata.decomposition, the canonical ones: rows of a code point and the
\* code point it decomposes to
SingletonDecompositions ==
    <<832, 768, 833, 769, 835, 787, 884, 697, 894, 59, 903, 183, 8049, 940, 8051, 941, 8053, 942,
      8055, 943, 8057, 972, 8059, 973, 8061, 974, 8123, 902, 8126, 953, 8137, 904, 8139, 905, 8147,
      912, 8155, 906, 8163, 944, 8171, 910, 8174, 901, 8175, 96, 8185, 908, 8187, 911, 8189, 180,
      8192, 8194, 8193, 8195, 8486, 937, 8490, 75, 8491, 197, 9001, 12296, 9002, 12297, 63744,
      35912, 63745, 26356, 63746, 36554, 63747, 36040, 63748, 28369, 63749, 20018, 63750, 21477,
      63751, 40860, 63752, 40860, 63753, 22865, 63754, 37329, 63755, 21895, 63756, 22856, 63757,
      25078, 63758, 30313, 63759, 32645, 63760, 34367, 63761, 34746, 63762, 35064, 63763, 37007,
      63764, 27138, 63765, 27931, 63766, 28889, 63767, 29662, 63768, 33853, 63769, 37226, 63770,
      39409, 63771, 20098, 63772, 21365, 63773, 27396, 63774, 29211, 63775, 34349, 63776, 40478,
      63777, 23888, 63778, 28651, 63779, 34253, 63780, 35172, 63781, 25289, 63782, 33240, 63783,
      34847, 63784, 24266, 63785, 26391, 63786, 28010, 63787, 29436, 63788, 37070, 63789, 20358,
      63790, 20919, 63791, 21214, 63792, 25796, 63793, 27347, 63794, 29200, 63795, 30439, 63796,
      32769, 63797, 34310, 63798, 34396, 63799, 36335, 63800, 38706, 63801, 39791, 63802, 40442,
      63803, 30860, 63804, 31103, 63805, 32160, 63806, 33737, 63807, 37636, 63808, 40575, 63809,
      35542, 63810, 22751, 63811, 24324, 63812, 31840, 63813, 32894, 63814, 29282, 63815, 30922,
      63816, 36034, 63817, 38647, 63818, 22744, 63819, 23650, 63820, 27155, 63821, 28122, 63822,
      28431, 63823, 32047, 63824, 32311, 63825, 38475, 63826, 21202, 63827, 32907, 63828, 20956,
      63829, 20940, 63830, 31260, 63831, 32190, 63832, 33777, 63833, 38517, 63834, 35712, 63835,
      25295, 63836, 27138, 63837, 35582, 63838, 20025, 63839, 23527, 63840, 24594, 63841, 29575,
      63842, 30064, 63843, 21271, 63844, 30971, 63845, 20415, 63846, 24489, 63847, 19981, 63848,
      27852, 63849, 25976, 63850, 32034, 63851, 21443, 63852, 22622, 63853, 30465, 63854, 33865,
      63855, 35498, 63856, 27578, 63857, 36784, 63858, 27784, 63859, 25342, 63860, 33509, 63861,
      25504, 63862, 30053, 63863, 20142, 63864, 20841, 63865, 20937, 63866, 26753, 63867, 31975,
      63868, 33391, 63869, 35538, 63870, 37327, 63871, 21237, 63872, 21570, 63873, 22899, 63874,
      24300, 63875, 26053, 63876, 28670, 63877, 31018, 63878, 38317, 63879, 39530, 63880, 40599,
      63881, 40654, 63882, 21147, 63883, 26310, 63884, 27511, 63885, 36706, 63886, 24180, 63887,
      24976, 63888, 25088, 63889, 25754, 63890, 28451, 63891, 29001, 63892, 29833, 63893, 31178,
      63894, 32244, 63895, 32879, 63896, 36646, 63897, 34030, 63898, 36899, 63899, 37706, 63900,
      21015, 63901, 21155, 63902, 21693, 63903, 28872, 63904, 35010, 63905, 35498, 63906, 24265,
      63907, 24565, 63908, 25467, 63909, 27566, 63910, 31806, 63911, 29557, 63912, 20196, 63913,
      22265, 63914, 23527, 63915, 23994, 63916, 24604, 63917, 29618, 63918, 29801, 63919, 32666,
      63920, 32838, 63921, 37428, 63922, 38646, 63923, 38728, 63924, 38936, 63925, 20363, 63926,
      31150, 63927, 37300, 63928, 38584, 63929, 24801, 63930, 20102, 63931, 20698, 63932, 23534,
      63933, 23615, 63934, 26009, 63935, 27138, 63936, 29134, 63937, 30274, 63938, 34044, 63939,
      36988, 63940, 40845, 63941, 26248, 63942, 38446, 63943, 21129, 63944, 26491, 63945, 26611,
      63946, 27969, 63947, 28316, 63948, 29705, 63949, 30041, 63950, 30827, 63951, 32016, 63952,
      39006, 63953, 20845, 63954, 25134, 63955, 38520, 63956, 20523, 63957, 23833, 63958, 28138,
      63959, 36650, 63960, 24459, 63961, 24900, 63962, 26647, 63963, 29575, 63964, 38534, 63965,
      21033, 63966, 21519, 63967, 23653, 63968, 26131, 63969, 26446, 63970, 26792, 63971, 27877,
      63972, 29702, 63973, 30178, 63974, 32633, 63975, 35023, 63976, 35041, 63977, 37324, 63978,
      38626, 63979, 21311, 63980, 28346, 63981, 21533, 63982, 29136, 63983, 29848, 63984, 34298,
      63985, 38563, 63986, 40023, 63987, 40607, 63988, 26519, 63989, 28107, 63990, 33256, 63991,
      31435, 63992, 31520, 63993, 31890, 63994, 29376, 63995, 28825, 63996, 35672, 63997, 20160,
      63998, 33590, 63999, 21050, 64000, 20999, 64001, 24230, 64002, 25299, 64003, 31958, 64004,
      23429, 64005, 27934, 64006, 26292, 64007, 36667, 64008, 34892, 64009, 38477, 64010, 35211,
      64011, 24275, 64012, 20800, 64013, 21952, 64016, 22618, 64018, 26228, 64021, 20958, 64022,
      29482, 64023, 30410, 64024, 31036, 64025, 31070, 64026, 31077, 64027, 31119, 64028, 38742,
      64029, 31934, 64030, 32701, 64032, 34322, 64034, 35576, 64037, 36920, 64038, 37117, 64042,
      39151, 64043, 39164, 64044, 39208, 64045, 40372, 64046, 37086, 64047, 38583, 64048, 20398,
      64049, 20711, 64050, 20813, 64051, 21193, 64052, 21220, 64053, 21329, 64054, 21917, 64055,
      22022, 64056, 22120, 64057, 22592, 64058, 22696, 64059, 23652, 64060, 23662, 64061, 24724,
      64062, 24936, 64063, 24974, 64064, 25074, 64065, 25935, 64066, 26082, 64067, 26257, 64068,
      26757, 64069, 28023, 64070, 28186, 64071, 28450, 64072, 29038, 64073, 29227, 64074, 29730,
      64075, 30865, 64076, 31038, 64077, 31049, 64078, 31048, 64079, 31056, 64080, 31062, 64081,
      31069, 64082, 31117, 64083, 31118, 64084, 31296, 64085, 31361, 64086, 31680, 64087, 32244,
      64088, 32265, 64089, 32321, 64090, 32626, 64091, 32773, 64092, 33261, 64093, 33401, 64094,
      33401, 64095, 33879, 64096, 35088, 64097, 35222, 64098, 35585, 64099, 35641, 64100, 36051,
      64101, 36104, 64102, 36790, 64103, 36920, 64104, 38627, 64105, 38911, 64106, 38971, 64107,
      24693, 64108, 148206, 64109, 33304, 64112, 20006, 64113, 20917, 64114, 20840, 64115, 20352,
      64116, 20805, 64117, 20864, 64118, 21191, 64119, 21242, 64120, 21917, 64121, 21845, 64122,
      21913, 64123, 21986, 64124, 22618, 64125, 22707, 64126, 22852, 64127, 22868, 64128, 23138,
      64129, 23336, 64130, 24274, 64131, 24281, 64132, 24425, 64133, 24493, 64134, 24792, 64135,
      24910, 64136, 24840, 64137, 24974, 64138, 24928, 64139, 25074, 64140, 25140, 64141, 25540,
      64142, 25628, 64143, 25682, 64144, 25942, 64145, 26228, 64146, 26391, 64147, 26395, 64148,
      26454, 64149, 27513, 64150, 27578, 64151, 27969, 64152, 28379, 64153, 28363, 64154, 28450,
      64155, 28702, 64156, 29038, 64157, 30631, 64158, 29237, 64159, 29359, 64160, 29482, 64161,
      29809, 64162, 29958, 64163, 30011, 64164, 30237, 64165, 30239, 64166, 30410, 64167, 30427,
      64168, 30452, 64169, 30538, 64170, 30528, 64171, 30924, 64172, 31409, 64173, 31680, 64174,
      31867, 64175, 32091, 64176, 32244, 64177, 32574, 64178, 32773, 64179, 33618, 64180, 33775,
      64181, 34681, 64182, 35137, 64183, 35206, 64184, 35222, 64185, 35519, 64186, 35576, 64187,
      35531, 64188, 35585, 64189, 35582, 64190, 35565, 64191, 35641, 64192, 35722, 64193, 36104,
      64194, 36664, 64195, 36978, 64196, 37273, 64197, 37494, 64198, 38524, 64199, 38627, 64200,
      38742, 64201, 38875, 64202, 38911, 64203, 38923, 64204, 38971, 64205, 39698, 64206, 40860,
      64207, 141386, 64208, 141380, 64209, 144341, 64210, 15261, 64211, 16408, 64212, 16441, 64213,
      152137, 64214, 154832, 64215, 163539, 64216, 40771, 64217, 40846, 194560, 20029, 194561,
      20024, 194562, 20033, 194563, 131362, 194564, 20320, 194565, 20398, 194566, 20411, 194567,
      20482, 194568, 20602, 194569, 20633, 194570, 20711, 194571, 20687, 194572, 13470, 194573,
      132666, 194574, 20813, 194575, 20820, 194576, 20836, 194577, 20855, 194578, 132380, 194579,
      13497, 194580, 20839, 194581, 20877, 194582, 132427, 194583, 20887, 194584, 20900, 194585,
      20172, 194586, 20908, 194587, 20917, 194588, 168415, 194589, 20981, 194590, 20995, 194591,
      13535, 194592, 21051, 194593, 21062, 194594, 21106, 194595, 21111, 194596, 13589, 194597,
      21191, 194598, 21193, 194599, 21220, 194600, 21242, 194601, 21253, 194602, 21254, 194603,
      21271, 194604, 21321, 194605, 21329, 194606, 21338, 194607, 21363, 194608, 21373, 194609,
      21375, 194610, 21375, 194611, 21375, 194612, 133676, 194613, 28784, 194614, 21450, 194615,
      21471, 194616, 133987, 194617, 21483, 194618, 21489, 194619, 21510, 194620, 21662, 194621,
      21560, 194622, 21576, 194623, 21608, 194624, 21666, 194625, 21750, 194626, 21776, 194627,
      21843, 194628, 21859, 194629, 21892, 194630, 21892, 194631, 21913, 194632, 21931, 194633,
      21939, 194634, 21954, 194635, 22294, 194636, 22022, 194637, 22295, 194638, 22097, 194639,
      22132, 194640, 20999, 194641, 22766, 194642, 22478, 194643, 22516, 194644, 22541, 194645,
      22411, 194646, 22578, 194647, 22577, 194648, 22700, 194649, 136420, 194650, 22770, 194651,
      22775, 194652, 22790, 194653, 22810, 194654, 22818, 194655, 22882, 194656, 136872, 194657,
      136938, 194658, 23020, 194659, 23067, 194660, 23079, 194661, 23000, 194662, 23142, 194663,
      14062, 194664, 14076, 194665, 23304, 194666, 23358, 194667, 23358, 194668, 137672, 194669,
      23491, 194670, 23512, 194671, 23527, 194672, 23539, 194673, 138008, 194674, 23551, 194675,
      23558, 194676, 24403, 194677, 23586, 194678, 14209, 194679, 23648, 194680, 23662, 194681,
      23744, 194682, 23693, 194683, 138724, 194684, 23875, 194685, 138726, 194686, 23918, 194687,
      23915, 194688, 23932, 194689, 24033, 194690, 24034, 194691, 14383, 194692, 24061, 194693,
      24104, 194694, 24125, 194695, 24169, 194696, 14434, 194697, 139651, 194698, 14460, 194699,
      24240, 194700, 24243, 194701, 24246, 194702, 24266, 194703, 172946, 194704, 24318, 194705,
      140081, 194706, 140081, 194707, 33281, 194708, 24354, 194709, 24354, 194710, 14535, 194711,
      144056, 194712, 156122, 194713, 24418, 194714, 24427, 194715, 14563, 194716, 24474, 194717,
      24525, 194718, 24535, 194719, 24569, 194720, 24705, 194721, 14650, 194722, 14620, 194723,
      24724, 194724, 141012, 194725, 24775, 194726, 24904, 194727, 24908, 194728, 24910, 194729,
      24908, 194730, 24954, 194731, 24974, 194732, 25010, 194733, 24996, 194734, 25007, 194735,
      25054, 194736, 25074, 194737, 25078, 194738, 25104, 194739, 25115, 194740, 25181, 194741,
      25265, 194742, 25300, 194743, 25424, 194744, 142092, 194745, 25405, 194746, 25340, 194747,
      25448, 194748, 25475, 194749, 25572, 194750, 142321, 194751, 25634, 194752, 25541, 194753,
      25513, 194754, 14894, 194755, 25705, 194756, 25726, 194757, 25757, 194758, 25719, 194759,
      14956, 194760, 25935, 194761, 25964, 194762, 143370, 194763, 26083, 194764, 26360, 194765,
      26185, 194766, 15129, 194767, 26257, 194768, 15112, 194769, 15076, 194770, 20882, 194771,
      20885, 194772, 26368, 194773, 26268, 194774, 32941, 194775, 17369, 194776, 26391, 194777,
      26395, 194778, 26401, 194779, 26462, 194780, 26451, 194781, 144323, 194782, 15177, 194783,
      26618, 194784, 26501, 194785, 26706, 194786, 26757, 194787, 144493, 194788, 26766, 194789,
      26655, 194790, 26900, 194791, 15261, 194792, 26946, 194793, 27043, 194794, 27114, 194795,
      27304, 194796, 145059, 194797, 27355, 194798, 15384, 194799, 27425, 194800, 145575, 194801,
      27476, 194802, 15438, 194803, 27506, 194804, 27551, 194805, 27578, 194806, 27579, 194807,
      146061, 194808, 138507, 194809, 146170, 194810, 27726, 194811, 146620, 194812, 27839, 194813,
      27853, 194814, 27751, 194815, 27926, 194816, 27966, 194817, 28023, 194818, 27969, 194819,
      28009, 194820, 28024, 194821, 28037, 194822, 146718, 194823, 27956, 194824, 28207, 194825,
      28270, 194826, 15667, 194827, 28363, 194828, 28359, 194829, 147153, 194830, 28153, 194831,
      28526, 194832, 147294, 194833, 147342, 194834, 28614, 194835, 28729, 194836, 28702, 194837,
      28699, 194838, 15766, 194839, 28746, 194840, 28797, 194841, 28791, 194842, 28845, 194843,
      132389, 194844, 28997, 194845, 148067, 194846, 29084, 194847, 148395, 194848, 29224, 194849,
      29237, 194850, 29264, 194851, 149000, 194852, 29312, 194853, 29333, 194854, 149301, 194855,
      149524, 194856, 29562, 194857, 29579, 194858, 16044, 194859, 29605, 194860, 16056, 194861,
      16056, 194862, 29767, 194863, 29788, 194864, 29809, 194865, 29829, 194866, 29898, 194867,
      16155, 194868, 29988, 194869, 150582, 194870, 30014, 194871, 150674, 194872, 30064, 194873,
      139679, 194874, 30224, 194875, 151457, 194876, 151480, 194877, 151620, 194878, 16380, 194879,
      16392, 194880, 30452, 194881, 151795, 194882, 151794, 194883, 151833, 194884, 151859, 194885,
      30494, 194886, 30495, 194887, 30495, 194888, 30538, 194889, 16441, 194890, 30603, 194891,
      16454, 194892, 16534, 194893, 152605, 194894, 30798, 194895, 30860, 194896, 30924, 194897,
      16611, 194898, 153126, 194899, 31062, 194900, 153242, 194901, 153285, 194902, 31119, 194903,
      31211, 194904, 16687, 194905, 31296, 194906, 31306, 194907, 31311, 194908, 153980, 194909,
      154279, 194910, 154279, 194911, 31470, 194912, 16898, 194913, 154539, 194914, 31686, 194915,
      31689, 194916, 16935, 194917, 154752, 194918, 31954, 194919, 17056, 194920, 31976, 194921,
      31971, 194922, 32000, 194923, 155526, 194924, 32099, 194925, 17153, 194926, 32199, 194927,
      32258, 194928, 32325, 194929, 17204, 194930, 156200, 194931, 156231, 194932, 17241, 194933,
      156377, 194934, 32634, 194935, 156478, 194936, 32661, 194937, 32762, 194938, 32773, 194939,
      156890, 194940, 156963, 194941, 32864, 194942, 157096, 194943, 32880, 194944, 144223, 194945,
      17365, 194946, 32946, 194947, 33027, 194948, 17419, 194949, 33086, 194950, 23221, 194951,
      157607, 194952, 157621, 194953, 144275, 194954, 144284, 194955, 33281, 194956, 33284, 194957,
      36766, 194958, 17515, 194959, 33425, 194960, 33419, 194961, 33437, 194962, 21171, 194963,
      33457, 194964, 33459, 194965, 33469, 194966, 33510, 194967, 158524, 194968, 33509, 194969,
      33565, 194970, 33635, 194971, 33709, 194972, 33571, 194973, 33725, 194974, 33767, 194975,
      33879, 194976, 33619, 194977, 33738, 194978, 33740, 194979, 33756, 194980, 158774, 194981,
      159083, 194982, 158933, 194983, 17707, 194984, 34033, 194985, 34035, 194986, 34070, 194987,
      160714, 194988, 34148, 194989, 159532, 194990, 17757, 194991, 17761, 194992, 159665, 194993,
      159954, 194994, 17771, 194995, 34384, 194996, 34396, 194997, 34407, 194998, 34409, 194999,
      34473, 195000, 34440, 195001, 34574, 195002, 34530, 195003, 34681, 195004, 34600, 195005,
      34667, 195006, 34694, 195007, 17879, 195008, 34785, 195009, 34817, 195010, 17913, 195011,
      34912, 195012, 34915, 195013, 161383, 195014, 35031, 195015, 35038, 195016, 17973, 195017,
      35066, 195018, 13499, 195019, 161966, 195020, 162150, 195021, 18110, 195022, 18119, 195023,
      35488, 195024, 35565, 195025, 35722, 195026, 35925, 195027, 162984, 195028, 36011, 195029,
      36033, 195030, 36123, 195031, 36215, 195032, 163631, 195033, 133124, 195034, 36299, 195035,
      36284, 195036, 36336, 195037, 133342, 195038, 36564, 195039, 36664, 195040, 165330, 195041,
      165357, 195042, 37012, 195043, 37105, 195044, 37137, 195045, 165678, 195046, 37147, 195047,
      37432, 195048, 37591, 195049, 37592, 195050, 37500, 195051, 37881, 195052, 37909, 195053,
      166906, 195054, 38283, 195055, 18837, 195056, 38327, 195057, 167287, 195058, 18918, 195059,
      38595, 195060, 23986, 195061, 38691, 195062, 168261, 195063, 168474, 195064, 19054, 195065,
      19062, 195066, 38880, 195067, 168970, 195068, 19122, 195069, 169110, 195070, 38923, 195071,
      38923, 195072, 38953, 195073, 169398, 195074, 39138, 195075, 19251, 195076, 39209, 195077,
      39335, 195078, 39362, 195079, 39422, 195080, 19406, 195081, 170800, 195082, 39698, 195083,
      40000, 195084, 40189, 195085, 19662, 195086, 19693, 195087, 40295, 195088, 172238, 195089,
      19704, 195090, 172293, 195091, 172558, 195092, 172689, 195093, 40635, 195094, 19798, 195095,
      40697, 195096, 40702, 195097, 40709, 195098, 40719, 195099, 40726, 195100, 40763, 195101,
      173568>>

\* rows of a code point and the two code points it decomposes to
PairDecompositions ==
    <<192, 65, 768, 193, 65, 769, 194, 65, 770, 195, 65, 771, 196, 65, 776, 197, 65, 778, 199, 67,
      807, 200, 69, 768, 201, 69, 769, 202, 69, 770, 203, 69, 776, 204, 73, 768, 205, 73, 769, 206,
      73, 770, 207, 73, 776, 209, 78, 771, 210, 79, 768, 211, 79, 769, 212, 79, 770, 213, 79, 771,
      214, 79, 776, 217, 85, 768, 218, 85, 769, 219, 85, 770, 220, 85, 776, 221, 89, 769, 224, 97,
      768, 225, 97, 769, 226, 97, 770, 227, 97, 771, 228, 97, 776, 229, 97, 778, 231, 99, 807, 232,
      101, 768, 233, 101, 769, 234, 101, 770, 235, 101, 776, 236, 105, 768, 237, 105, 769, 238, 105,
      770, 239, 105, 776, 241, 110, 771, 242, 111, 768, 243, 111, 769, 244, 111, 770, 245, 111, 771,
      246, 111, 776, 249, 117, 768, 250, 117, 769, 251, 117, 770, 252, 117, 776, 253, 121, 769, 255,
      121, 776, 256, 65, 772, 257, 97, 772, 258, 65, 774, 259, 97, 774, 260, 65, 808, 261, 97, 808,
      262, 67, 769, 263, 99, 769, 264, 67, 770, 265, 99, 770, 266, 67, 775, 267, 99, 775, 268, 67,
      780, 269, 99, 780, 270, 68, 780, 271, 100, 780, 274, 69, 772, 275, 101, 772, 276, 69, 774,
      277, 101, 774, 278, 69, 775, 279, 101, 775, 280, 69, 808, 281, 101, 808, 282, 69, 780, 283,
      101, 780, 284, 71, 770, 285, 103, 770, 286, 71, 774, 287, 103, 774, 288, 71, 775, 289, 103,
      775, 290, 71, 807, 291, 103, 807, 292, 72, 770, 293, 104, 770, 296, 73, 771, 297, 105, 771,
      298, 73, 772, 299, 105, 772, 300, 73, 774, 301, 105, 774, 302, 73, 808, 303, 105, 808, 304,
      73, 775, 308, 74, 770, 309, 106, 770, 310, 75, 807, 311, 107, 807, 313, 76, 769, 314, 108,
      769, 315, 76, 807, 316, 108, 807, 317, 76, 780, 318, 108, 780, 323, 78, 769, 324, 110, 769,
      325, 78, 807, 326, 110, 807, 327, 78, 780, 328, 110, 780, 332, 79, 772, 333, 111, 772, 334,
      79, 774, 335, 111, 774, 336, 79, 779, 337, 111, 779, 340, 82, 769, 341, 114, 769, 342, 82,
      807, 343, 114, 807, 344, 82, 780, 345, 114, 780, 346, 83, 769, 347, 115, 769, 348, 83, 770,
      349, 115, 770, 350, 83, 807, 351, 115, 807, 352, 83, 780, 353, 115, 780, 354, 84, 807, 355,
      116, 807, 356, 84, 780, 357, 116, 780, 360, 85, 771, 361, 117, 771, 362, 85, 772, 363, 117,
      772, 364, 85, 774, 365, 117, 774, 366, 85, 778, 367, 117, 778, 368, 85, 779, 369, 117, 779,
      370, 85, 808, 371, 117, 808, 372, 87, 770, 373, 119, 770, 374, 89, 770, 375, 121, 770, 376,
      89, 776, 377, 90, 769, 378, 122, 769, 379, 90, 775, 380, 122, 775, 381, 90, 780, 382, 122,
      780, 416, 79, 795, 417, 111, 795, 431, 85, 795, 432, 117, 795, 461, 65, 780, 462, 97, 780,
      463, 73, 780, 464, 105, 780, 465, 79, 780, 466, 111, 780, 467, 85, 780, 468, 117, 780, 469,
      220, 772, 470, 252, 772, 471, 220, 769, 472, 252, 769, 473, 220, 780, 474, 252, 780, 475, 220,
      768, 476, 252, 768, 478, 196, 772, 479, 228, 772, 480, 550, 772, 481, 551, 772, 482, 198, 772,
      483, 230, 772, 486, 71, 780, 487, 103, 780, 488, 75, 780, 489, 107, 780, 490, 79, 808, 491,
      111, 808, 492, 490, 772, 493, 491, 772, 494, 439, 780, 495, 658, 780, 496, 106, 780, 500, 71,
      769, 501, 103, 769, 504, 78, 768, 505, 110, 768, 506, 197, 769, 507, 229, 769, 508, 198, 769,
      509, 230, 769, 510, 216, 769, 511, 248, 769, 512, 65, 783, 513, 97, 783, 514, 65, 785, 515,
      97, 785, 516, 69, 783, 517, 101, 783, 518, 69, 785, 519, 101, 785, 520, 73, 783, 521, 105,
      783, 522, 73, 785, 523, 105, 785, 524, 79, 783, 525, 111, 783, 526, 79, 785, 527, 111, 785,
      528, 82, 783, 529, 114, 783, 530, 82, 785, 531, 114, 785, 532, 85, 783, 533, 117, 783, 534,
      85, 785, 535, 117, 785, 536, 83, 806, 537, 115, 806, 538, 84, 806, 539, 116, 806, 542, 72,
      780, 543, 104, 780, 550, 65, 775, 551, 97, 775, 552, 69, 807, 553, 101, 807, 554, 214, 772,
      555, 246, 772, 556, 213, 772, 557, 245, 772, 558, 79, 775, 559, 111, 775, 560, 558, 772, 561,
      559, 772, 562, 89, 772, 563, 121, 772, 836, 776, 769, 901, 168, 769, 902, 913, 769, 904, 917,
      769, 905, 919, 769, 906, 921, 769, 908, 927, 769, 910, 933, 769, 911, 937, 769, 912, 970, 769,
      938, 921, 776, 939, 933, 776, 940, 945, 769, 941, 949, 769, 942, 951, 769, 943, 953, 769, 944,
      971, 769, 970, 953, 776, 971, 965, 776, 972, 959, 769, 973, 965, 769, 974, 969, 769, 979, 978,
      769, 980, 978, 776, 1024, 1045, 768, 1025, 1045, 776, 1027, 1043, 769, 1031, 1030, 776, 1036,
      1050, 769, 1037, 1048, 768, 1038, 1059, 774, 1049, 1048, 774, 1081, 1080, 774, 1104, 1077,
      768, 1105, 1077, 776, 1107, 1075, 769, 1111, 1110, 776, 1116, 1082, 769, 1117, 1080, 768,
      1118, 1091, 774, 1142, 1140, 783, 1143, 1141, 783, 1217, 1046, 774, 1218, 1078, 774, 1232,
      1040, 774, 1233, 1072, 774, 1234, 1040, 776, 1235, 1072, 776, 1238, 1045, 774, 1239, 1077,
      774, 1242, 1240, 776, 1243, 1241, 776, 1244, 1046, 776, 1245, 1078, 776, 1246, 1047, 776,
      1247, 1079, 776, 1250, 1048, 772, 1251, 1080, 772, 1252, 1048, 776, 1253, 1080, 776, 1254,
      1054, 776, 1255, 1086, 776, 1258, 1256, 776, 1259, 1257, 776, 1260, 1069, 776, 1261, 1101,
      776, 1262, 1059, 772, 1263, 1091, 772, 1264, 1059, 776, 1265, 1091, 776, 1266, 1059, 779,
      1267, 1091, 779, 1268, 1063, 776, 1269, 1095, 776, 1272, 1067, 776, 1273, 1099, 776, 1570,
      1575, 1619, 1571, 1575, 1620, 1572, 1608, 1620, 1573, 1575, 1621, 1574, 1610, 1620, 1728,
      1749, 1620, 1730, 1729, 1620, 1747, 1746, 1620, 2345, 2344, 2364, 2353, 2352, 2364, 2356,
      2355, 2364, 2392, 2325, 2364, 2393, 2326, 2364, 2394, 2327, 2364, 2395, 2332, 2364, 2396,
      2337, 2364, 2397, 2338, 2364, 2398, 2347, 2364, 2399, 2351, 2364, 2507, 2503, 2494, 2508,
      2503, 2519, 2524, 2465, 2492, 2525, 2466, 2492, 2527, 2479, 2492, 2611, 2610, 2620, 2614,
      2616, 2620, 2649, 2582, 2620, 2650, 2583, 2620, 2651, 2588, 2620, 2654, 2603, 2620, 2888,
      2887, 2902, 2891, 2887, 2878, 2892, 2887, 2903, 2908, 2849, 2876, 2909, 2850, 2876, 2964,
      2962, 3031, 3018, 3014, 3006, 3019, 3015, 3006, 3020, 3014, 3031, 3144, 3142, 3158, 3264,
      3263, 3285, 3271, 3270, 3285, 3272, 3270, 3286, 3274, 3270, 3266, 3275, 3274, 3285, 3402,
      3398, 3390, 3403, 3399, 3390, 3404, 3398, 3415, 3546, 3545, 3530, 3548, 3545, 3535, 3549,
      3548, 3530, 3550, 3545, 3551, 3907, 3906, 4023, 3917, 3916, 4023, 3922, 3921, 4023, 3927,
      3926, 4023, 3932, 3931, 4023, 3945, 3904, 4021, 3955, 3953, 3954, 3957, 3953, 3956, 3958,
      4018, 3968, 3960, 4019, 3968, 3969, 3953, 3968, 3987, 3986, 4023, 3997, 3996, 4023, 4002,
      4001, 4023, 4007, 4006, 4023, 4012, 4011, 4023, 4025, 3984, 4021, 4134, 4133, 4142, 6918,
      6917, 6965, 6920, 6919, 6965, 6922, 6921, 6965, 6924, 6923, 6965, 6926, 6925, 6965, 6930,
      6929, 6965, 6971, 6970, 6965, 6973, 6972, 6965, 6976, 6974, 6965, 6977, 6975, 6965, 6979,
      6978, 6965, 7680, 65, 805, 7681, 97, 805, 7682, 66, 775, 7683, 98, 775, 7684, 66, 803, 7685,
      98, 803, 7686, 66, 817, 7687, 98, 817, 7688, 199, 769, 7689, 231, 769, 7690, 68, 775, 7691,
      100, 775, 7692, 68, 803, 7693, 100, 803, 7694, 68, 817, 7695, 100, 817, 7696, 68, 807, 7697,
      100, 807, 7698, 68, 813, 7699, 100, 813, 7700, 274, 768, 7701, 275, 768, 7702, 274, 769, 7703,
      275, 769, 7704, 69, 813, 7705, 101, 813, 7706, 69, 816, 7707, 101, 816, 7708, 552, 774, 7709,
      553, 774, 7710, 70, 775, 7711, 102, 775, 7712, 71, 772, 7713, 103, 772, 7714, 72, 775, 7715,
      104, 775, 7716, 72, 803, 7717, 104, 803, 7718, 72, 776, 7719, 104, 776, 7720, 72, 807, 7721,
      104, 807, 7722, 72, 814, 7723, 104, 814, 7724, 73, 816, 7725, 105, 816, 7726, 207, 769, 7727,
      239, 769, 7728, 75, 769, 7729, 107, 769, 7730, 75, 803, 7731, 107, 803, 7732, 75, 817, 7733,
      107, 817, 7734, 76, 803, 7735, 108, 803, 7736, 7734, 772, 7737, 7735, 772, 7738, 76, 817,
      7739, 108, 817, 7740, 76, 813, 7741, 108, 813, 7742, 77, 769, 7743, 109, 769, 7744, 77, 775,
      7745, 109, 775, 7746, 77, 803, 7747, 109, 803, 7748, 78, 775, 7749, 110, 775, 7750, 78, 803,
      7751, 110, 803, 7752, 78, 817, 7753, 110, 817, 7754, 78, 813, 7755, 110, 813, 7756, 213, 769,
      7757, 245, 769, 7758, 213, 776, 7759, 245, 776, 7760, 332, 768, 7761, 333, 768, 7762, 332,
      769, 7763, 333, 769, 7764, 80, 769, 7765, 112, 769, 7766, 80, 775, 7767, 112, 775, 7768, 82,
      775, 7769, 114, 775, 7770, 82, 803, 7771, 114, 803, 7772, 7770, 772, 7773, 7771, 772, 7774,
      82, 817, 7775, 114, 817, 7776, 83, 775, 7777, 115, 775, 7778, 83, 803, 7779, 115, 803, 7780,
      346, 775, 7781, 347, 775, 7782, 352, 775, 7783, 353, 775, 7784, 7778, 775, 7785, 7779, 775,
      7786, 84, 775, 7787, 116, 775, 7788, 84, 803, 7789, 116, 803, 7790, 84, 817, 7791, 116, 817,
      7792, 84, 813, 7793, 116, 813, 7794, 85, 804, 7795, 117, 804, 7796, 85, 816, 7797, 117, 816,
      7798, 85, 813, 7799, 117, 813, 7800, 360, 769, 7801, 361, 769, 7802, 362, 776, 7803, 363, 776,
      7804, 86, 771, 7805, 118, 771, 7806, 86, 803, 7807, 118, 803, 7808, 87, 768, 7809, 119, 768,
      7810, 87, 769, 7811, 119, 769, 7812, 87, 776, 7813, 119, 776, 7814, 87, 775, 7815, 119, 775,
      7816, 87, 803, 7817, 119, 803, 7818, 88, 775, 7819, 120, 775, 7820, 88, 776, 7821, 120, 776,
      7822, 89, 775, 7823, 121, 775, 7824, 90, 770, 7825, 122, 770, 7826, 90, 803, 7827, 122, 803,
      7828, 90, 817, 7829, 122, 817, 7830, 104, 817, 7831, 116, 776, 7832, 119, 778, 7833, 121, 778,
      7835, 383, 775, 7840, 65, 803, 7841, 97, 803, 7842, 65, 777, 7843, 97, 777, 7844, 194, 769,
      7845, 226, 769, 7846, 194, 768, 7847, 226, 768, 7848, 194, 777, 7849, 226, 777, 7850, 194,
      771, 7851, 226, 771, 7852, 7840, 770, 7853, 7841, 770, 7854, 258, 769, 7855, 259, 769, 7856,
      258, 768, 7857, 259, 768, 7858, 258, 777, 7859, 259, 777, 7860, 258, 771, 7861, 259, 771,
      7862, 7840, 774, 7863, 7841, 774, 7864, 69, 803, 7865, 101, 803, 7866, 69, 777, 7867, 101,
      777, 7868, 69, 771, 7869, 101, 771, 7870, 202, 769, 7871, 234, 769, 7872, 202, 768, 7873, 234,
      768, 7874, 202, 777, 7875, 234, 777, 7876, 202, 771, 7877, 234, 771, 7878, 7864, 770, 7879,
      7865, 770, 7880, 73, 777, 7881, 105, 777, 7882, 73, 803, 7883, 105, 803, 7884, 79, 803, 7885,
      111, 803, 7886, 79, 777, 7887, 111, 777, 7888, 212, 769, 7889, 244, 769, 7890, 212, 768, 7891,
      244, 768, 7892, 212, 777, 7893, 244, 777, 7894, 212, 771, 7895, 244, 771, 7896, 7884, 770,
      7897, 7885, 770, 7898, 416, 769, 7899, 417, 769, 7900, 416, 768, 7901, 417, 768, 7902, 416,
      777, 7903, 417, 777, 7904, 416, 771, 7905, 417, 771, 7906, 416, 803, 7907, 417, 803, 7908, 85,
      803, 7909, 117, 803, 7910, 85, 777, 7911, 117, 777, 7912, 431, 769, 7913, 432, 769, 7914, 431,
      768, 7915, 432, 768, 7916, 431, 777, 7917, 432, 777, 7918, 431, 771, 7919, 432, 771, 7920,
      431, 803, 7921, 432, 803, 7922, 89, 768, 7923, 121, 768, 7924, 89, 803, 7925, 121, 803, 7926,
      89, 777, 7927, 121, 777, 7928, 89, 771, 7929, 121, 771, 7936, 945, 787, 7937, 945, 788, 7938,
      7936, 768, 7939, 7937, 768, 7940, 7936, 769, 7941, 7937, 769, 7942, 7936, 834, 7943, 7937,
      834, 7944, 913, 787, 7945, 913, 788, 7946, 7944, 768, 7947, 7945, 768, 7948, 7944, 769, 7949,
      7945, 769, 7950, 7944, 834, 7951, 7945, 834, 7952, 949, 787, 7953, 949, 788, 7954, 7952, 768,
      7955, 7953, 768, 7956, 7952, 769, 7957, 7953, 769, 7960, 917, 787, 7961, 917, 788, 7962, 7960,
      768, 7963, 7961, 768, 7964, 7960, 769, 7965, 7961, 769, 7968, 951, 787, 7969, 951, 788, 7970,
      7968, 768, 7971, 7969, 768, 7972, 7968, 769, 7973, 7969, 769, 7974, 7968, 834, 7975, 7969,
      834, 7976, 919, 787, 7977, 919, 788, 7978, 7976, 768, 7979, 7977, 768, 7980, 7976, 769, 7981,
      7977, 769, 7982, 7976, 834, 7983, 7977, 834, 7984, 953, 787, 7985, 953, 788, 7986, 7984, 768,
      7987, 7985, 768, 7988, 7984, 769, 7989, 7985, 769, 7990, 7984, 834, 7991, 7985, 834, 7992,
      921, 787, 7993, 921, 788, 7994, 7992, 768, 7995, 7993, 768, 7996, 7992, 769, 7997, 7993, 769,
      7998, 7992, 834, 7999, 7993, 834, 8000, 959, 787, 8001, 959, 788, 8002, 8000, 768, 8003, 8001,
      768, 8004, 8000, 769, 8005, 8001, 769, 8008, 927, 787, 8009, 927, 788, 8010, 8008, 768, 8011,
      8009, 768, 8012, 8008, 769, 8013, 8009, 769, 8016, 965, 787, 8017, 965, 788, 8018, 8016, 768,
      8019, 8017, 768, 8020, 8016, 769, 8021, 8017, 769, 8022, 8016, 834, 8023, 8017, 834, 8025,
      933, 788, 8027, 8025, 768, 8029, 8025, 769, 8031, 8025, 834, 8032, 969, 787, 8033, 969, 788,
      8034, 8032, 768, 8035, 8033, 768, 8036, 8032, 769, 8037, 8033, 769, 8038, 8032, 834, 8039,
      8033, 834, 8040, 937, 787, 8041, 937, 788, 8042, 8040, 768, 8043, 8041, 768, 8044, 8040, 769,
      8045, 8041, 769, 8046, 8040, 834, 8047, 8041, 834, 8048, 945, 768, 8050, 949, 768, 8052, 951,
      768, 8054, 953, 768, 8056, 959, 768, 8058, 965, 768, 8060, 969, 768, 8064, 7936, 837, 8065,
      7937, 837, 8066, 7938, 837, 8067, 7939, 837, 8068, 7940, 837, 8069, 7941, 837, 8070, 7942,
      837, 8071, 7943, 837, 8072, 7944, 837, 8073, 7945, 837, 8074, 7946, 837, 8075, 7947, 837,
      8076, 7948, 837, 8077, 7949, 837, 8078, 7950, 837, 8079, 7951, 837, 8080, 7968, 837, 8081,
      7969, 837, 8082, 7970, 837, 8083, 7971, 837, 8084, 7972, 837, 8085, 7973, 837, 8086, 7974,
      837, 8087, 7975, 837, 8088, 7976, 837, 8089, 7977, 837, 8090, 7978, 837, 8091, 7979, 837,
      8092, 7980, 837, 8093, 7981, 837, 8094, 7982, 837, 8095, 7983, 837, 8096, 8032, 837, 8097,
      8033, 837, 8098, 8034, 837, 8099, 8035, 837, 8100, 8036, 837, 8101, 8037, 837, 8102, 8038,
      837, 8103, 8039, 837, 8104, 8040, 837, 8105, 8041, 837, 8106, 8042, 837, 8107, 8043, 837,
      8108, 8044, 837, 8109, 8045, 837, 8110, 8046, 837, 8111, 8047, 837, 8112, 945, 774, 8113, 945,
      772, 8114, 8048, 837, 8115, 945, 837, 8116, 940, 837, 8118, 945, 834, 8119, 8118, 837, 8120,
      913, 774, 8121, 913, 772, 8122, 913, 768, 8124, 913, 837, 8129, 168, 834, 8130, 8052, 837,
      8131, 951, 837, 8132, 942, 837, 8134, 951, 834, 8135, 8134, 837, 8136, 917, 768, 8138, 919,
      768, 8140, 919, 837, 8141, 8127, 768, 8142, 8127, 769, 8143, 8127, 834, 8144, 953, 774, 8145,
      953, 772, 8146, 970, 768, 8150, 953, 834, 8151, 970, 834, 8152, 921, 774, 8153, 921, 772,
      8154, 921, 768, 8157, 8190, 768, 8158, 8190, 769, 8159, 8190, 834, 8160, 965, 774, 8161, 965,
      772, 8162, 971, 768, 8164, 961, 787, 8165, 961, 788, 8166, 965, 834, 8167, 971, 834, 8168,
      933, 774, 8169, 933, 772, 8170, 933, 768, 8172, 929, 788, 8173, 168, 768, 8178, 8060, 837,
      8179, 969, 837, 8180, 974, 837, 8182, 969, 834, 8183, 8182, 837, 8184, 927, 768, 8186, 937,
      768, 8188, 937, 837, 8602, 8592, 824, 8603, 8594, 824, 8622, 8596, 824, 8653, 8656, 824, 8654,
      8660, 824, 8655, 8658, 824, 8708, 8707, 824, 8713, 8712, 824, 8716, 8715, 824, 8740, 8739,
      824, 8742, 8741, 824, 8769, 8764, 824, 8772, 8771, 824, 8775, 8773, 824, 8777, 8776, 824,
      8800, 61, 824, 8802, 8801, 824, 8813, 8781, 824, 8814, 60, 824, 8815, 62, 824, 8816, 8804,
      824, 8817, 8805, 824, 8820, 8818, 824, 8821, 8819, 824, 8824, 8822, 824, 8825, 8823, 824,
      8832, 8826, 824, 8833, 8827, 824, 8836, 8834, 824, 8837, 8835, 824, 8840, 8838, 824, 8841,
      8839, 824, 8876, 8866, 824, 8877, 8872, 824, 8878, 8873, 824, 8879, 8875, 824, 8928, 8828,
      824, 8929, 8829, 824, 8930, 8849, 824, 8931, 8850, 824, 8938, 8882, 824, 8939, 8883, 824,
      8940, 8884, 824, 8941, 8885, 824, 10972, 10973, 824, 12364, 12363, 12441, 12366, 12365, 12441,
      12368, 12367, 12441, 12370, 12369, 12441, 12372, 12371, 12441, 12374, 12373, 12441, 12376,
      12375, 12441, 12378, 12377, 12441, 12380, 12379, 12441, 12382, 12381, 12441, 12384, 12383,
      12441, 12386, 12385, 12441, 12389, 12388, 12441, 12391, 12390, 12441, 12393, 12392, 12441,
      12400, 12399, 12441, 12401, 12399, 12442, 12403, 12402, 12441, 12404, 12402, 12442, 12406,
      12405, 12441, 12407, 12405, 12442, 12409, 12408, 12441, 12410, 12408, 12442, 12412, 12411,
      12441, 12413, 12411, 12442, 12436, 12358, 12441, 12446, 12445, 12441, 12460, 12459, 12441,
      12462, 12461, 12441, 12464, 12463, 12441, 12466, 12465, 12441, 12468, 12467, 12441, 12470,
      12469, 12441, 12472, 12471, 12441, 12474, 12473, 12441, 12476, 12475, 12441, 12478, 12477,
      12441, 12480, 12479, 12441, 12482, 12481, 12441, 12485, 12484, 12441, 12487, 12486, 12441,
      12489, 12488, 12441, 12496, 12495, 12441, 12497, 12495, 12442, 12499, 12498, 12441, 12500,
      12498, 12442, 12502, 12501, 12441, 12503, 12501, 12442, 12505, 12504, 12441, 12506, 12504,
      12442, 12508, 12507, 12441, 12509, 12507, 12442, 12532, 12454, 12441, 12535, 12527, 12441,
      12536, 12528, 12441, 12537, 12529, 12441, 12538, 12530, 12441, 12542, 12541, 12441, 64285,
      1497, 1460, 64287, 1522, 1463, 64298, 1513, 1473, 64299, 1513, 1474, 64300, 64329, 1473,
      64301, 64329, 1474, 64302, 1488, 1463, 64303, 1488, 1464, 64304, 1488, 1468, 64305, 1489,
      1468, 64306, 1490, 1468, 64307, 1491, 1468, 64308, 1492, 1468, 64309, 1493, 1468, 64310, 1494,
      1468, 64312, 1496, 1468, 64313, 1497, 1468, 64314, 1498, 1468, 64315, 1499, 1468, 64316, 1500,
      1468, 64318, 1502, 1468, 64320, 1504, 1468, 64321, 1505, 1468, 64323, 1507, 1468, 64324, 1508,
      1468, 64326, 1510, 1468, 64327, 1511, 1468, 64328, 1512, 1468, 64329, 1513, 1468, 64330, 1514,
      1468, 64331, 1493, 1465, 64332, 1489, 1471, 64333, 1499, 1471, 64334, 1508, 1471, 69786,
      69785, 69818, 69788, 69787, 69818, 69803, 69797, 69818, 69934, 69937, 69927, 69935, 69938,
      69927, 70475, 70471, 70462, 70476, 70471, 70487, 70843, 70841, 70842, 70844, 70841, 70832,
      70846, 70841, 70845, 71098, 71096, 71087, 71099, 71097, 71087, 71992, 71989, 71984, 119134,
      119127, 119141, 119135, 119128, 119141, 119136, 119135, 119150, 119137, 119135, 119151,
      119138, 119135, 119152, 119139, 119135, 119153, 119140, 119135, 119154, 119227, 119225,
      119141, 119228, 119226, 119141, 119229, 119227, 119150, 119230, 119228, 119150, 119231,
      119227, 119151, 119232, 119228, 119151>>

\* the code points of PairDecompositions that composition does not produce
\* (Full_Composition_Exclusion)
CompositionExclusions ==
    <<836, 2392, 2393, 2394, 2395, 2396, 2397, 2398, 2399, 2524, 2525, 2527, 2611, 2614, 2649, 2650,
      2651, 2654, 2908, 2909, 3907, 3917, 3922, 3927, 3932, 3945, 3955, 3957, 3958, 3960, 3969, 3987,
      3997, 4002, 4007, 4012, 4025, 10972, 64285, 64287, 64298, 64299, 64300, 64301, 64302, 64303,
      64304, 64305, 64306, 64307, 64308, 64309, 64310, 64312, 64313, 64314, 64315, 64316, 64318,
      64320, 64321, 64323, 64324, 64326, 64327, 64328, 64329, 64330, 64331, 64332, 64333, 64334,
      119134, 119135, 119136, 119137, 119138, 119139, 119140, 119227, 119228, 119229, 119230, 119231,
      119232>>

(***************************************************************************)
(* unicodedata: properties and NFC                                         *)
(***************************************************************************)
\* unicodedata.bidirectional, '' for an unassigned code point
bidirectional(n) == ValueAt(BidiClasses, n, "")

\* unicodedata.combining
combining(n) == ValueAt(CombiningClasses, n, 0)

\* unicodedata.category(chr(n))[0] == 'M'
IsMark(n) == intranges_contain(n, MarkRanges)

\* unicodedata.name(chr(n)) does not raise
HasName(n) == bidirectional(n) # "" /\ ~intranges_contain(n, UnnamedAssigned)

\* the Hangul syllables, which decompose and compose by arithmetic
Hangul ==
    [SBase |-> 44032, LBase |-> 4352, VBase |-> 4449, TBase |-> 4519,
     LCount |-> 19, VCount |-> 21, TCount |-> 28, SCount |-> 11172]

IsSingleton(n) ==
    RowAt(SingletonDecompositions, 2, n) > 0
        /\ Cell(SingletonDecompositions, 2, RowAt(SingletonDecompositions, 2, n), 1) = n

IsPair(n) ==
    RowAt(PairDecompositions, 3, n) > 0
        /\ Cell(PairDecompositions, 3, RowAt(PairDecompositions, 3, n), 1) = n

\* the full canonical decomposition of a code point
RECURSIVE Decomposed(_)
Decomposed(n) ==
    IF n >= Hangul.SBase /\ n < Hangul.SBase + Hangul.SCount
    THEN LET s == n - Hangul.SBase
             lv == <<Hangul.LBase + (s \div (Hangul.VCount * Hangul.TCount)),
                     Hangul.VBase + ((s % (Hangul.VCount * Hangul.TCount)) \div Hangul.TCount)>>
         IN  IF s % Hangul.TCount = 0 THEN lv
             ELSE Append(lv, Hangul.TBase + (s % Hangul.TCount))
    ELSE IF IsSingleton(n)
    THEN Decomposed(Cell(SingletonDecompositions, 2, RowAt(SingletonDecompositions, 2, n), 2))
    ELSE IF IsPair(n)
    THEN Decomposed(Cell(PairDecompositions, 3, RowAt(PairDecompositions, 3, n), 2))
         \o Decomposed(Cell(PairDecompositions, 3, RowAt(PairDecompositions, 3, n), 3))
    ELSE <<n>>

\* the decompositions of the code points lo..hi of cps
RECURSIVE DecomposedRun(_, _, _)
DecomposedRun(cps, lo, hi) ==
    IF lo > hi THEN <<>>
    ELSE IF lo = hi THEN Decomposed(cps[lo])
    ELSE DecomposedRun(cps, lo, (lo + hi) \div 2)
         \o DecomposedRun(cps, ((lo + hi) \div 2) + 1, hi)

\* c put behind out in canonical order: a code point of a combining class
\* other than 0 goes in front of those of a greater class that end out
RECURSIVE Ordered(_, _)
Ordered(out, c) ==
    IF combining(c) = 0 \/ out = <<>> \/ combining(out[Len(out)]) <= combining(c)
    THEN Append(out, c)
    ELSE Append(Ordered(SubSeq(out, 1, Len(out) - 1), c), out[Len(out)])

\* the code points lo..hi of cps put behind out, one after the other
RECURSIVE OrderedRun(_, _, _, _)
OrderedRun(cps, lo, hi, out) ==
    IF lo > hi THEN out
    ELSE IF lo = hi THEN Ordered(out, cps[lo])
    ELSE LET half == OrderedRun(cps, lo, (lo + hi) \div 2, out)
         IN  IF half = <<>> THEN half
             ELSE OrderedRun(cps, ((lo + hi) \div 2) + 1, hi, half)

\* row k of PairDecompositions is the decomposition into a and b of a code
\* point that composition produces
ComposesTo(k, a, b) ==
    /\ Cell(PairDecompositions, 3, k, 2) = a
    /\ Cell(PairDecompositions, 3, k, 3) = b
    /\ \A e \in 1..Len(CompositionExclusions) :
          CompositionExclusions[e] # Cell(PairDecompositions, 3, k, 1)

\* the code point that a and b compose to, 0 when there is none
Composite(a, b) ==
    IF /\ a >= Hangul.LBase /\ a < Hangul.LBase + Hangul.LCount
       /\ b >= Hangul.VBase /\ b < Hangul.VBase + Hangul.VCount
    THEN Hangul.SBase
         + ((a - Hangul.LBase) * Hangul.VCount + (b - Hangul.VBase)) * Hangul.TCount
    ELSE IF /\ a >= Hangul.SBase /\ a < Hangul.SBase + Hangul.SCount
            /\ (a - Hangul.SBase) % Hangul.TCount = 0
            /\ b > Hangul.TBase /\ b < Hangul.TBase + Hangul.TCount
    THEN a + (b - Hangul.TBase)
    ELSE IF \E k \in 1..(Len(PairDecompositions) \div 3) : ComposesTo(k, a, b)
    THEN Cell(PairDecompositions, 3,
              CHOOSE k \in 1..(Len(PairDecompositions) \div 3) : ComposesTo(k, a, b), 1)
    ELSE 0

\* canonical composition of decomposed and ordered code points: st.out is what
\* is composed so far, st.starter the place in it of the last code point of
\* class 0, and c composes with that one unless a code point between them has
\* a class that is not below the class of c
ComposedWith(st, c) ==
    IF /\ st.starter > 0
       /\ (Len(st.out) = st.starter \/ combining(st.out[Len(st.out)]) < combining(c))
       /\ Composite(st.out[st.starter], c) # 0
    THEN [st EXCEPT !.out[st.starter] = Composite(st.out[st.starter], c)]
    ELSE [out |-> Append(st.out, c),
          starter |-> IF combining(c) = 0 THEN Len(st.out) + 1 ELSE st.starter]

\* the code points lo..hi of cps composed into st, one after the other
RECURSIVE ComposedRun(_, _, _, _)
ComposedRun(cps, lo, hi, st) ==
    IF lo > hi THEN st
    ELSE IF lo = hi THEN ComposedWith(st, cps[lo])
    ELSE LET half == ComposedRun(cps, lo, (lo + hi) \div 2, st)
         IN  IF half.out = <<>> THEN half
             ELSE ComposedRun(cps, ((lo + hi) \div 2) + 1, hi, half)

\* decomposed code points in canonical order
InOrder(decomposed) == OrderedRun(decomposed, 1, Len(decomposed), <<>>)

\* decomposed and ordered code points composed
Composed(ordered) == ComposedRun(ordered, 1, Len(ordered), [out |-> <<>>, starter |-> 0]).out

\* unicodedata.normalize('NFC', s), on code points
NFC(cps) == Composed(InOrder(DecomposedRun(cps, 1, Len(cps))))

(***************************************************************************)
(* The punycode codec of Python (encodings.punycode)                       *)
(***************************************************************************)
\* T(j, bias)
PunyT(j, bias) ==
    IF 36 * (j + 1) - bias < 1 THEN 1
    ELSE IF 36 * (j + 1) - bias > 26 THEN 26
    ELSE 36 * (j + 1) - bias

\* digits[d], as a code point: a to z, then 0 to 9
PunyDigit(d) == IF d < 26 THEN 97 + d ELSE 22 + d

\* generate_generalized_integer(N, bias), j the digits written so far
RECURSIVE generate_generalized_integer(_, _, _)
generate_generalized_integer(N, bias, j) ==
    IF N < PunyT(j, bias) THEN <<PunyDigit(N)>>
    ELSE <<PunyDigit(PunyT(j, bias) + ((N - PunyT(j, bias)) % (36 - PunyT(j, bias))))>>
         \o generate_generalized_integer((N - PunyT(j, bias)) \div (36 - PunyT(j, bias)),
                                         bias, j + 1)

\* the loop of adapt: while delta > 455
RECURSIVE AdaptLoop(_, _)
AdaptLoop(delta, divisions) ==
    IF delta > 455 THEN AdaptLoop(delta \div 35, divisions + 36)
    ELSE divisions + ((36 * delta) \div (delta + 38))

\* adapt(delta, first, numchars)
adapt(delta, first, numchars) ==
    AdaptLoop((IF first THEN delta \div 700 ELSE delta \div 2)
                  + ((IF first THEN delta \div 700 ELSE delta \div 2) \div numchars),
              0)

\* generate_integers(baselen, deltas), from delta number points on
RECURSIVE generate_integers(_, _, _, _)
generate_integers(baselen, deltas, points, bias) ==
    IF points > Len(deltas) THEN <<>>
    ELSE generate_generalized_integer(deltas[points], bias, 0)
         \o generate_integers(baselen, deltas, points + 1,
                              adapt(deltas[points], points = 1, baselen + points))

\* the places of the code points beyond ASCII, in the order insertion_unsort
\* takes them: by code point, equal ones from left to right
InsertionOrder(cps) ==
    LET ext == {p \in 1..Len(cps) : cps[p] >= 128}
        Before(q, p) == cps[q] < cps[p] \/ (cps[q] = cps[p] /\ q < p)
    IN  [k \in 1..Cardinality(ext) |->
            CHOOSE p \in ext : Cardinality({q \in ext : Before(q, p)}) = k - 1]

\* insertion_unsort(str, extended): the deltas; index is what selective_find
\* returns for the code point at place p, the code points before it that are
\* not greater
insertion_unsort(cps) ==
    LET order == InsertionOrder(cps)
        char(k) == IF k = 0 THEN 128 ELSE cps[order[k]]
        index(k) ==
            IF k = 0 THEN -1
            ELSE Cardinality({q \in 1..(order[k] - 1) : cps[q] <= cps[order[k]]})
        selective_len(max) == Cardinality({q \in 1..Len(cps) : cps[q] < max})
    IN  [k \in 1..Len(order) |->
            (selective_len(char(k)) + 1) * (char(k) - char(k - 1))
                + index(k) - index(k - 1) - 1]

\* punycode_encode(text), on code points
punycode_encode(cps) ==
    LET base == SelectSeq(cps, LAMBDA c : c < 128)
        extended == generate_integers(Len(base), insertion_unsort(cps), 1, 72)
    IN  IF base # <<>> THEN base \o <<45>> \o extended ELSE extended

\* the value of a digit of the upper-case extended string, -1 for another
\* character
PunyValue(c) ==
    IF c >= 65 /\ c <= 90 THEN c - 65 ELSE IF c >= 48 /\ c <= 57 THEN c - 22 ELSE -1

\* decode_generalized_number(extended, extpos, bias, 'strict'): not ok when the
\* string ends within the number or holds a character that is no digit. A
\* number above limit is not ok either: insertion_sort finds its character
\* beyond U+10FFFF
RECURSIVE decode_generalized_number(_, _, _, _, _, _, _)
decode_generalized_number(extended, extpos, bias, j, w, result, limit) ==
    IF extpos > Len(extended) \/ PunyValue(extended[extpos]) < 0
    THEN [ok |-> FALSE, next |-> extpos, value |-> 0]
    ELSE IF /\ PunyValue(extended[extpos]) > 0
            /\ w > (limit - result) \div PunyValue(extended[extpos])
    THEN [ok |-> FALSE, next |-> extpos, value |-> 0]
    ELSE IF PunyValue(extended[extpos]) < PunyT(j, bias)
    THEN [ok |-> TRUE, next |-> extpos + 1,
          value |-> result + PunyValue(extended[extpos]) * w]
    ELSE decode_generalized_number(
             extended, extpos + 1, bias, j + 1,
             IF w > limit \div (36 - PunyT(j, bias)) THEN limit + 1
             ELSE w * (36 - PunyT(j, bias)),
             result + PunyValue(extended[extpos]) * w, limit)

\* insertion_sort(base, extended, 'strict'): char and pos as the loop has
\* them, extpos the place of the next number
RECURSIVE insertion_sort(_, _, _, _, _, _)
insertion_sort(base, extended, char, pos, bias, extpos) ==
    IF extpos > Len(extended) THEN [ok |-> TRUE, text |-> base]
    ELSE LET number == decode_generalized_number(
                           extended, extpos, bias, 0, 1, 0,
                           1114112 * (Len(base) + Len(extended) + 1))
             newpos == pos + number.value + 1
             newchar == char + (newpos \div (Len(base) + 1))
             at == newpos % (Len(base) + 1)
         IN  IF ~number.ok \/ newchar > 1114111 THEN [ok |-> FALSE, text |-> <<>>]
             ELSE insertion_sort(
                      SubSeq(base, 1, at) \o <<newchar>> \o SubSeq(base, at + 1, Len(base)),
                      extended, newchar, at,
                      adapt(number.value, extpos = 1, Len(base) + 1), number.next)

\* the place of the last '-' (code point 45) of text, 0 when there is none
LastHyphen(text) ==
    IF \E i \in 1..Len(text) : text[i] = 45
    THEN CHOOSE i \in 1..Len(text) :
            text[i] = 45 /\ \A k \in (i + 1)..Len(text) : text[k] # 45
    ELSE 0

\* bytes.upper() and bytes.lower() of ASCII code points
UpperAscii(text) ==
    [i \in 1..Len(text) |-> IF text[i] >= 97 /\ text[i] <= 122 THEN text[i] - 32 ELSE text[i]]

LowerAscii(text) ==
    [i \in 1..Len(text) |-> IF text[i] >= 65 /\ text[i] <= 90 THEN text[i] + 32 ELSE text[i]]

\* punycode_decode(text, 'strict') of ASCII code points: what stands before the
\* last '-' is the base
punycode_decode(text) ==
    insertion_sort(SubSeq(text, 1, LastHyphen(text) - 1),
                   UpperAscii(SubSeq(text, LastHyphen(text) + 1, Len(text))),
                   128, -1, 72, 1)

\* uts46data of idna 3.4: rows code point, status, from, to, a row standing for
\* the code points up to the next row; a row with a replacement has it at
\* from..to of uts46_mapped, a row without one has 0 as from
uts46data ==
    <<0, "3", 0, 0, 1, "3", 0, 0, 2, "3", 0, 0, 3, "3", 0, 0, 4, "3", 0, 0, 5, "3", 0, 0, 6, "3", 0,
      0, 7, "3", 0, 0, 8, "3", 0, 0, 9, "3", 0, 0, 10, "3", 0, 0, 11, "3", 0, 0, 12, "3", 0, 0, 13,
      "3", 0, 0, 14, "3", 0, 0, 15, "3", 0, 0, 16, "3", 0, 0, 17, "3", 0, 0, 18, "3", 0, 0, 19, "3",
      0, 0, 20, "3", 0, 0, 21, "3", 0, 0, 22, "3", 0, 0, 23, "3", 0, 0, 24, "3", 0, 0, 25, "3", 0,
      0, 26, "3", 0, 0, 27, "3", 0, 0, 28, "3", 0, 0, 29, "3", 0, 0, 30, "3", 0, 0, 31, "3", 0, 0,
      32, "3", 0, 0, 33, "3", 0, 0, 34, "3", 0, 0, 35, "3", 0, 0, 36, "3", 0, 0, 37, "3", 0, 0, 38,
      "3", 0, 0, 39, "3", 0, 0, 40, "3", 0, 0, 41, "3", 0, 0, 42, "3", 0, 0, 43, "3", 0, 0, 44, "3",
      0, 0, 45, "V", 0, 0, 46, "V", 0, 0, 47, "3", 0, 0, 48, "V", 0, 0, 49, "V", 0, 0, 50, "V", 0,
      0, 51, "V", 0, 0, 52, "V", 0, 0, 53, "V", 0, 0, 54, "V", 0, 0, 55, "V", 0, 0, 56, "V", 0, 0,
      57, "V", 0, 0, 58, "3", 0, 0, 59, "3", 0, 0, 60, "3", 0, 0, 61, "3", 0, 0, 62, "3", 0, 0, 63,
      "3", 0, 0, 64, "3", 0, 0, 65, "M", 1, 1, 66, "M", 2, 2, 67, "M", 3, 3, 68, "M", 4, 4, 69, "M",
      5, 5, 70, "M", 6, 6, 71, "M", 7, 7, 72, "M", 8, 8, 73, "M", 9, 9, 74, "M", 10, 10, 75, "M",
      11, 11, 76, "M", 12, 12, 77, "M", 13, 13, 78, "M", 14, 14, 79, "M", 15, 15, 80, "M", 16, 16,
      81, "M", 17, 17, 82, "M", 18, 18, 83, "M", 19, 19, 84, "M", 20, 20, 85, "M", 21, 21, 86, "M",
      22, 22, 87, "M", 23, 23, 88, "M", 24, 24, 89, "M", 25, 25, 90, "M", 26, 26, 91, "3", 0, 0, 92,
      "3", 0, 0, 93, "3", 0, 0, 94, "3", 0, 0, 95, "3", 0, 0, 96, "3", 0, 0, 97, "V", 0, 0, 98, "V",
      0, 0, 99, "V", 0, 0, 100, "V", 0, 0, 101, "V", 0, 0, 102, "V", 0, 0, 103, "V", 0, 0, 104, "V",
      0, 0, 105, "V", 0, 0, 106, "V", 0, 0, 107, "V", 0, 0, 108, "V", 0, 0, 109, "V", 0, 0, 110,
      "V", 0, 0, 111, "V", 0, 0, 112, "V", 0, 0, 113, "V", 0, 0, 114, "V", 0, 0, 115, "V", 0, 0,
      116, "V", 0, 0, 117, "V", 0, 0, 118, "V", 0, 0, 119, "V", 0, 0, 120, "V", 0, 0, 121, "V", 0,
      0, 122, "V", 0, 0, 123, "3", 0, 0, 124, "3", 0, 0, 125, "3", 0, 0, 126, "3", 0, 0, 127, "3",
      0, 0, 128, "X", 0, 0, 129, "X", 0, 0, 130, "X", 0, 0, 131, "X", 0, 0, 132, "X", 0, 0, 133,
      "X", 0, 0, 134, "X", 0, 0, 135, "X", 0, 0, 136, "X", 0, 0, 137, "X", 0, 0, 138, "X", 0, 0,
      139, "X", 0, 0, 140, "X", 0, 0, 141, "X", 0, 0, 142, "X", 0, 0, 143, "X", 0, 0, 144, "X", 0,
      0, 145, "X", 0, 0, 146, "X", 0, 0, 147, "X", 0, 0, 148, "X", 0, 0, 149, "X", 0, 0, 150, "X",
      0, 0, 151, "X", 0, 0, 152, "X", 0, 0, 153, "X", 0, 0, 154, "X", 0, 0, 155, "X", 0, 0, 156,
      "X", 0, 0, 157, "X", 0, 0, 158, "X", 0, 0, 159, "X", 0, 0, 160, "3", 27, 27, 161, "V", 0, 0,
      162, "V", 0, 0, 163, "V", 0, 0, 164, "V", 0, 0, 165, "V", 0, 0, 166, "V", 0, 0, 167, "V", 0,
      0, 168, "3", 28, 29, 169, "V", 0, 0, 170, "M", 30, 30, 171, "V", 0, 0, 172, "V", 0, 0, 173,
      "I", 0, 0, 174, "V", 0, 0, 175, "3", 31, 32, 176, "V", 0, 0, 177, "V", 0, 0, 178, "M", 33, 33,
      179, "M", 34, 34, 180, "3", 35, 36, 181, "M", 37, 37, 182, "V", 0, 0, 183, "V", 0, 0, 184,
      "3", 38, 39, 185, "M", 40, 40, 186, "M", 41, 41, 187, "V", 0, 0, 188, "M", 42, 44, 189, "M",
      45, 47, 190, "M", 48, 50, 191, "V", 0, 0, 192, "M", 51, 51, 193, "M", 52, 52, 194, "M", 53,
      53, 195, "M", 54, 54, 196, "M", 55, 55, 197, "M", 56, 56, 198, "M", 57, 57, 199, "M", 58, 58,
      200, "M", 59, 59, 201, "M", 60, 60, 202, "M", 61, 61, 203, "M", 62, 62, 204, "M", 63, 63, 205,
      "M", 64, 64, 206, "M", 65, 65, 207, "M", 66, 66, 208, "M", 67, 67, 209, "M", 68, 68, 210, "M",
      69, 69, 211, "M", 70, 70, 212, "M", 71, 71, 213, "M", 72, 72, 214, "M", 73, 73, 215, "V", 0,
      0, 216, "M", 74, 74, 217, "M", 75, 75, 218, "M", 76, 76, 219, "M", 77, 77, 220, "M", 78, 78,
      221, "M", 79, 79, 222, "M", 80, 80, 223, "D", 81, 82, 224, "V", 0, 0, 225, "V", 0, 0, 226,
      "V", 0, 0, 227, "V", 0, 0, 228, "V", 0, 0, 229, "V", 0, 0, 230, "V", 0, 0, 231, "V", 0, 0,
      232, "V", 0, 0, 233, "V", 0, 0, 234, "V", 0, 0, 235, "V", 0, 0, 236, "V", 0, 0, 237, "V", 0,
      0, 238, "V", 0, 0, 239, "V", 0, 0, 240, "V", 0, 0, 241, "V", 0, 0, 242, "V", 0, 0, 243, "V",
      0, 0, 244, "V", 0, 0, 245, "V", 0, 0, 246, "V", 0, 0, 247, "V", 0, 0, 248, "V", 0, 0, 249,
      "V", 0, 0, 250, "V", 0, 0, 251, "V", 0, 0, 252, "V", 0, 0, 253, "V", 0, 0, 254, "V", 0, 0,
      255, "V", 0, 0, 256, "M", 83, 83, 257, "V", 0, 0, 258, "M", 84, 84, 259, "V", 0, 0, 260, "M",
      85, 85, 261, "V", 0, 0, 262, "M", 86, 86, 263, "V", 0, 0, 264, "M", 87, 87, 265, "V", 0, 0,
      266, "M", 88, 88, 267, "V", 0, 0, 268, "M", 89, 89, 269, "V", 0, 0, 270, "M", 90, 90, 271,
      "V", 0, 0, 272, "M", 91, 91, 273, "V", 0, 0, 274, "M", 92, 92, 275, "V", 0, 0, 276, "M", 93,
      93, 277, "V", 0, 0, 278, "M", 94, 94, 279, "V", 0, 0, 280, "M", 95, 95, 281, "V", 0, 0, 282,
      "M", 96, 96, 283, "V", 0, 0, 284, "M", 97, 97, 285, "V", 0, 0, 286, "M", 98, 98, 287, "V", 0,
      0, 288, "M", 99, 99, 289, "V", 0, 0, 290, "M", 100, 100, 291, "V", 0, 0, 292, "M", 101, 101,
      293, "V", 0, 0, 294, "M", 102, 102, 295, "V", 0, 0, 296, "M", 103, 103, 297, "V", 0, 0, 298,
      "M", 104, 104, 299, "V", 0, 0, 300, "M", 105, 105, 301, "V", 0, 0, 302, "M", 106, 106, 303,
      "V", 0, 0, 304, "M", 107, 108, 305, "V", 0, 0, 306, "M", 109, 110, 308, "M", 111, 111, 309,
      "V", 0, 0, 310, "M", 112, 112, 311, "V", 0, 0, 313, "M", 113, 113, 314, "V", 0, 0, 315, "M",
      114, 114, 316, "V", 0, 0, 317, "M", 115, 115, 318, "V", 0, 0, 319, "M", 116, 117, 321, "M",
      118, 118, 322, "V", 0, 0, 323, "M", 119, 119, 324, "V", 0, 0, 325, "M", 120, 120, 326, "V", 0,
      0, 327, "M", 121, 121, 328, "V", 0, 0, 329, "M", 122, 123, 330, "M", 124, 124, 331, "V", 0, 0,
      332, "M", 125, 125, 333, "V", 0, 0, 334, "M", 126, 126, 335, "V", 0, 0, 336, "M", 127, 127,
      337, "V", 0, 0, 338, "M", 128, 128, 339, "V", 0, 0, 340, "M", 129, 129, 341, "V", 0, 0, 342,
      "M", 130, 130, 343, "V", 0, 0, 344, "M", 131, 131, 345, "V", 0, 0, 346, "M", 132, 132, 347,
      "V", 0, 0, 348, "M", 133, 133, 349, "V", 0, 0, 350, "M", 134, 134, 351, "V", 0, 0, 352, "M",
      135, 135, 353, "V", 0, 0, 354, "M", 136, 136, 355, "V", 0, 0, 356, "M", 137, 137, 357, "V", 0,
      0, 358, "M", 138, 138, 359, "V", 0, 0, 360, "M", 139, 139, 361, "V", 0, 0, 362, "M", 140, 140,
      363, "V", 0, 0, 364, "M", 141, 141, 365, "V", 0, 0, 366, "M", 142, 142, 367, "V", 0, 0, 368,
      "M", 143, 143, 369, "V", 0, 0, 370, "M", 144, 144, 371, "V", 0, 0, 372, "M", 145, 145, 373,
      "V", 0, 0, 374, "M", 146, 146, 375, "V", 0, 0, 376, "M", 147, 147, 377, "M", 148, 148, 378,
      "V", 0, 0, 379, "M", 149, 149, 380, "V", 0, 0, 381, "M", 150, 150, 382, "V", 0, 0, 383, "M",
      151, 151, 384, "V", 0, 0, 385, "M", 152, 152, 386, "M", 153, 153, 387, "V", 0, 0, 388, "M",
      154, 154, 389, "V", 0, 0, 390, "M", 155, 155, 391, "M", 156, 156, 392, "V", 0, 0, 393, "M",
      157, 157, 394, "M", 158, 158, 395, "M", 159, 159, 396, "V", 0, 0, 398, "M", 160, 160, 399,
      "M", 161, 161, 400, "M", 162, 162, 401, "M", 163, 163, 402, "V", 0, 0, 403, "M", 164, 164,
      404, "M", 165, 165, 405, "V", 0, 0, 406, "M", 166, 166, 407, "M", 167, 167, 408, "M", 168,
      168, 409, "V", 0, 0, 412, "M", 169, 169, 413, "M", 170, 170, 414, "V", 0, 0, 415, "M", 171,
      171, 416, "M", 172, 172, 417, "V", 0, 0, 418, "M", 173, 173, 419, "V", 0, 0, 420, "M", 174,
      174, 421, "V", 0, 0, 422, "M", 175, 175, 423, "M", 176, 176, 424, "V", 0, 0, 425, "M", 177,
      177, 426, "V", 0, 0, 428, "M", 178, 178, 429, "V", 0, 0, 430, "M", 179, 179, 431, "M", 180,
      180, 432, "V", 0, 0, 433, "M", 181, 181, 434, "M", 182, 182, 435, "M", 183, 183, 436, "V", 0,
      0, 437, "M", 184, 184, 438, "V", 0, 0, 439, "M", 185, 185, 440, "M", 186, 186, 441, "V", 0, 0,
      444, "M", 187, 187, 445, "V", 0, 0, 452, "M", 188, 189, 455, "M", 190, 191, 458, "M", 192,
      193, 461, "M", 194, 194, 462, "V", 0, 0, 463, "M", 195, 195, 464, "V", 0, 0, 465, "M", 196,
      196, 466, "V", 0, 0, 467, "M", 197, 197, 468, "V", 0, 0, 469, "M", 198, 198, 470, "V", 0, 0,
      471, "M", 199, 199, 472, "V", 0, 0, 473, "M", 200, 200, 474, "V", 0, 0, 475, "M", 201, 201,
      476, "V", 0, 0, 478, "M", 202, 202, 479, "V", 0, 0, 480, "M", 203, 203, 481, "V", 0, 0, 482,
      "M", 204, 204, 483, "V", 0, 0, 484, "M", 205, 205, 485, "V", 0, 0, 486, "M", 206, 206, 487,
      "V", 0, 0, 488, "M", 207, 207, 489, "V", 0, 0, 490, "M", 208, 208, 491, "V", 0, 0, 492, "M",
      209, 209, 493, "V", 0, 0, 494, "M", 210, 210, 495, "V", 0, 0, 497, "M", 211, 212, 500, "M",
      213, 213, 501, "V", 0, 0, 502, "M", 214, 214, 503, "M", 215, 215, 504, "M", 216, 216, 505,
      "V", 0, 0, 506, "M", 217, 217, 507, "V", 0, 0, 508, "M", 218, 218, 509, "V", 0, 0, 510, "M",
      219, 219, 511, "V", 0, 0, 512, "M", 220, 220, 513, "V", 0, 0, 514, "M", 221, 221, 515, "V", 0,
      0, 516, "M", 222, 222, 517, "V", 0, 0, 518, "M", 223, 223, 519, "V", 0, 0, 520, "M", 224, 224,
      521, "V", 0, 0, 522, "M", 225, 225, 523, "V", 0, 0, 524, "M", 226, 226, 525, "V", 0, 0, 526,
      "M", 227, 227, 527, "V", 0, 0, 528, "M", 228, 228, 529, "V", 0, 0, 530, "M", 229, 229, 531,
      "V", 0, 0, 532, "M", 230, 230, 533, "V", 0, 0, 534, "M", 231, 231, 535, "V", 0, 0, 536, "M",
      232, 232, 537, "V", 0, 0, 538, "M", 233, 233, 539, "V", 0, 0, 540, "M", 234, 234, 541, "V", 0,
      0, 542, "M", 235, 235, 543, "V", 0, 0, 544, "M", 236, 236, 545, "V", 0, 0, 546, "M", 237, 237,
      547, "V", 0, 0, 548, "M", 238, 238, 549, "V", 0, 0, 550, "M", 239, 239, 551, "V", 0, 0, 552,
      "M", 240, 240, 553, "V", 0, 0, 554, "M", 241, 241, 555, "V", 0, 0, 556, "M", 242, 242, 557,
      "V", 0, 0, 558, "M", 243, 243, 559, "V", 0, 0, 560, "M", 244, 244, 561, "V", 0, 0, 562, "M",
      245, 245, 563, "V", 0, 0, 570, "M", 246, 246, 571, "M", 247, 247, 572, "V", 0, 0, 573, "M",
      248, 248, 574, "M", 249, 249, 575, "V", 0, 0, 577, "M", 250, 250, 578, "V", 0, 0, 579, "M",
      251, 251, 580, "M", 252, 252, 581, "M", 253, 253, 582, "M", 254, 254, 583, "V", 0, 0, 584,
      "M", 255, 255, 585, "V", 0, 0, 586, "M", 256, 256, 587, "V", 0, 0, 588, "M", 257, 257, 589,
      "V", 0, 0, 590, "M", 258, 258, 591, "V", 0, 0, 688, "M", 259, 259, 689, "M", 260, 260, 690,
      "M", 261, 261, 691, "M", 262, 262, 692, "M", 263, 263, 693, "M", 264, 264, 694, "M", 265, 265,
      695, "M", 266, 266, 696, "M", 267, 267, 697, "V", 0, 0, 728, "3", 268, 269, 729, "3", 270,
      271, 730, "3", 272, 273, 731, "3", 274, 275, 732, "3", 276, 277, 733, "3", 278, 279, 734, "V",
      0, 0, 736, "M", 280, 280, 737, "M", 281, 281, 738, "M", 282, 282, 739, "M", 283, 283, 740,
      "M", 284, 284, 741, "V", 0, 0, 832, "M", 285, 285, 833, "M", 286, 286, 834, "V", 0, 0, 835,
      "M", 287, 287, 836, "M", 288, 289, 837, "M", 290, 290, 838, "V", 0, 0, 847, "I", 0, 0, 848,
      "V", 0, 0, 880, "M", 291, 291, 881, "V", 0, 0, 882, "M", 292, 292, 883, "V", 0, 0, 884, "M",
      293, 293, 885, "V", 0, 0, 886, "M", 294, 294, 887, "V", 0, 0, 888, "X", 0, 0, 890, "3", 295,
      296, 891, "V", 0, 0, 894, "3", 297, 297, 895, "M", 298, 298, 896, "X", 0, 0, 900, "3", 299,
      300, 901, "3", 301, 303, 902, "M", 304, 304, 903, "M", 305, 305, 904, "M", 306, 306, 905, "M",
      307, 307, 906, "M", 308, 308, 907, "X", 0, 0, 908, "M", 309, 309, 909, "X", 0, 0, 910, "M",
      310, 310, 911, "M", 311, 311, 912, "V", 0, 0, 913, "M", 312, 312, 914, "M", 313, 313, 915,
      "M", 314, 314, 916, "M", 315, 315, 917, "M", 316, 316, 918, "M", 317, 317, 919, "M", 318, 318,
      920, "M", 319, 319, 921, "M", 320, 320, 922, "M", 321, 321, 923, "M", 322, 322, 924, "M", 323,
      323, 925, "M", 324, 324, 926, "M", 325, 325, 927, "M", 326, 326, 928, "M", 327, 327, 929, "M",
      328, 328, 930, "X", 0, 0, 931, "M", 329, 329, 932, "M", 330, 330, 933, "M", 331, 331, 934,
      "M", 332, 332, 935, "M", 333, 333, 936, "M", 334, 334, 937, "M", 335, 335, 938, "M", 336, 336,
      939, "M", 337, 337, 940, "V", 0, 0, 962, "D", 338, 338, 963, "V", 0, 0, 975, "M", 339, 339,
      976, "M", 340, 340, 977, "M", 341, 341, 978, "M", 342, 342, 979, "M", 343, 343, 980, "M", 344,
      344, 981, "M", 345, 345, 982, "M", 346, 346, 983, "V", 0, 0, 984, "M", 347, 347, 985, "V", 0,
      0, 986, "M", 348, 348, 987, "V", 0, 0, 988, "M", 349, 349, 989, "V", 0, 0, 990, "M", 350, 350,
      991, "V", 0, 0, 992, "M", 351, 351, 993, "V", 0, 0, 994, "M", 352, 352, 995, "V", 0, 0, 996,
      "M", 353, 353, 997, "V", 0, 0, 998, "M", 354, 354, 999, "V", 0, 0, 1000, "M", 355, 355, 1001,
      "V", 0, 0, 1002, "M", 356, 356, 1003, "V", 0, 0, 1004, "M", 357, 357, 1005, "V", 0, 0, 1006,
      "M", 358, 358, 1007, "V", 0, 0, 1008, "M", 359, 359, 1009, "M", 360, 360, 1010, "M", 361, 361,
      1011, "V", 0, 0, 1012, "M", 362, 362, 1013, "M", 363, 363, 1014, "V", 0, 0, 1015, "M", 364,
      364, 1016, "V", 0, 0, 1017, "M", 365, 365, 1018, "M", 366, 366, 1019, "V", 0, 0, 1021, "M",
      367, 367, 1022, "M", 368, 368, 1023, "M", 369, 369, 1024, "M", 370, 370, 1025, "M", 371, 371,
      1026, "M", 372, 372, 1027, "M", 373, 373, 1028, "M", 374, 374, 1029, "M", 375, 375, 1030, "M",
      376, 376, 1031, "M", 377, 377, 1032, "M", 378, 378, 1033, "M", 379, 379, 1034, "M", 380, 380,
      1035, "M", 381, 381, 1036, "M", 382, 382, 1037, "M", 383, 383, 1038, "M", 384, 384, 1039, "M",
      385, 385, 1040, "M", 386, 386, 1041, "M", 387, 387, 1042, "M", 388, 388, 1043, "M", 389, 389,
      1044, "M", 390, 390, 1045, "M", 391, 391, 1046, "M", 392, 392, 1047, "M", 393, 393, 1048, "M",
      394, 394, 1049, "M", 395, 395, 1050, "M", 396, 396, 1051, "M", 397, 397, 1052, "M", 398, 398,
      1053, "M", 399, 399, 1054, "M", 400, 400, 1055, "M", 401, 401, 1056, "M", 402, 402, 1057, "M",
      403, 403, 1058, "M", 404, 404, 1059, "M", 405, 405, 1060, "M", 406, 406, 1061, "M", 407, 407,
      1062, "M", 408, 408, 1063, "M", 409, 409, 1064, "M", 410, 410, 1065, "M", 411, 411, 1066, "M",
      412, 412, 1067, "M", 413, 413, 1068, "M", 414, 414, 1069, "M", 415, 415, 1070, "M", 416, 416,
      1071, "M", 417, 417, 1072, "V", 0, 0, 1120, "M", 418, 418, 1121, "V", 0, 0, 1122, "M", 419,
      419, 1123, "V", 0, 0, 1124, "M", 420, 420, 1125, "V", 0, 0, 1126, "M", 421, 421, 1127, "V", 0,
      0, 1128, "M", 422, 422, 1129, "V", 0, 0, 1130, "M", 423, 423, 1131, "V", 0, 0, 1132, "M", 424,
      424, 1133, "V", 0, 0, 1134, "M", 425, 425, 1135, "V", 0, 0, 1136, "M", 426, 426, 1137, "V", 0,
      0, 1138, "M", 427, 427, 1139, "V", 0, 0, 1140, "M", 428, 428, 1141, "V", 0, 0, 1142, "M", 429,
      429, 1143, "V", 0, 0, 1144, "M", 430, 430, 1145, "V", 0, 0, 1146, "M", 431, 431, 1147, "V", 0,
      0, 1148, "M", 432, 432, 1149, "V", 0, 0, 1150, "M", 433, 433, 1151, "V", 0, 0, 1152, "M", 434,
      434, 1153, "V", 0, 0, 1162, "M", 435, 435, 1163, "V", 0, 0, 1164, "M", 436, 436, 1165, "V", 0,
      0, 1166, "M", 437, 437, 1167, "V", 0, 0, 1168, "M", 438, 438, 1169, "V", 0, 0, 1170, "M", 439,
      439, 1171, "V", 0, 0, 1172, "M", 440, 440, 1173, "V", 0, 0, 1174, "M", 441, 441, 1175, "V", 0,
      0, 1176, "M", 442, 442, 1177, "V", 0, 0, 1178, "M", 443, 443, 1179, "V", 0, 0, 1180, "M", 444,
      444, 1181, "V", 0, 0, 1182, "M", 445, 445, 1183, "V", 0, 0, 1184, "M", 446, 446, 1185, "V", 0,
      0, 1186, "M", 447, 447, 1187, "V", 0, 0, 1188, "M", 448, 448, 1189, "V", 0, 0, 1190, "M", 449,
      449, 1191, "V", 0, 0, 1192, "M", 450, 450, 1193, "V", 0, 0, 1194, "M", 451, 451, 1195, "V", 0,
      0, 1196, "M", 452, 452, 1197, "V", 0, 0, 1198, "M", 453, 453, 1199, "V", 0, 0, 1200, "M", 454,
      454, 1201, "V", 0, 0, 1202, "M", 455, 455, 1203, "V", 0, 0, 1204, "M", 456, 456, 1205, "V", 0,
      0, 1206, "M", 457, 457, 1207, "V", 0, 0, 1208, "M", 458, 458, 1209, "V", 0, 0, 1210, "M", 459,
      459, 1211, "V", 0, 0, 1212, "M", 460, 460, 1213, "V", 0, 0, 1214, "M", 461, 461, 1215, "V", 0,
      0, 1216, "X", 0, 0, 1217, "M", 462, 462, 1218, "V", 0, 0, 1219, "M", 463, 463, 1220, "V", 0,
      0, 1221, "M", 464, 464, 1222, "V", 0, 0, 1223, "M", 465, 465, 1224, "V", 0, 0, 1225, "M", 466,
      466, 1226, "V", 0, 0, 1227, "M", 467, 467, 1228, "V", 0, 0, 1229, "M", 468, 468, 1230, "V", 0,
      0, 1232, "M", 469, 469, 1233, "V", 0, 0, 1234, "M", 470, 470, 1235, "V", 0, 0, 1236, "M", 471,
      471, 1237, "V", 0, 0, 1238, "M", 472, 472, 1239, "V", 0, 0, 1240, "M", 473, 473, 1241, "V", 0,
      0, 1242, "M", 474, 474, 1243, "V", 0, 0, 1244, "M", 475, 475, 1245, "V", 0, 0, 1246, "M", 476,
      476, 1247, "V", 0, 0, 1248, "M", 477, 477, 1249, "V", 0, 0, 1250, "M", 478, 478, 1251, "V", 0,
      0, 1252, "M", 479, 479, 1253, "V", 0, 0, 1254, "M", 480, 480, 1255, "V", 0, 0, 1256, "M", 481,
      481, 1257, "V", 0, 0, 1258, "M", 482, 482, 1259, "V", 0, 0, 1260, "M", 483, 483, 1261, "V", 0,
      0, 1262, "M", 484, 484, 1263, "V", 0, 0, 1264, "M", 485, 485, 1265, "V", 0, 0, 1266, "M", 486,
      486, 1267, "V", 0, 0, 1268, "M", 487, 487, 1269, "V", 0, 0, 1270, "M", 488, 488, 1271, "V", 0,
      0, 1272, "M", 489, 489, 1273, "V", 0, 0, 1274, "M", 490, 490, 1275, "V", 0, 0, 1276, "M", 491,
      491, 1277, "V", 0, 0, 1278, "M", 492, 492, 1279, "V", 0, 0, 1280, "M", 493, 493, 1281, "V", 0,
      0, 1282, "M", 494, 494, 1283, "V", 0, 0, 1284, "M", 495, 495, 1285, "V", 0, 0, 1286, "M", 496,
      496, 1287, "V", 0, 0, 1288, "M", 497, 497, 1289, "V", 0, 0, 1290, "M", 498, 498, 1291, "V", 0,
      0, 1292, "M", 499, 499, 1293, "V", 0, 0, 1294, "M", 500, 500, 1295, "V", 0, 0, 1296, "M", 501,
      501, 1297, "V", 0, 0, 1298, "M", 502, 502, 1299, "V", 0, 0, 1300, "M", 503, 503, 1301, "V", 0,
      0, 1302, "M", 504, 504, 1303, "V", 0, 0, 1304, "M", 505, 505, 1305, "V", 0, 0, 1306, "M", 506,
      506, 1307, "V", 0, 0, 1308, "M", 507, 507, 1309, "V", 0, 0, 1310, "M", 508, 508, 1311, "V", 0,
      0, 1312, "M", 509, 509, 1313, "V", 0, 0, 1314, "M", 510, 510, 1315, "V", 0, 0, 1316, "M", 511,
      511, 1317, "V", 0, 0, 1318, "M", 512, 512, 1319, "V", 0, 0, 1320, "M", 513, 513, 1321, "V", 0,
      0, 1322, "M", 514, 514, 1323, "V", 0, 0, 1324, "M", 515, 515, 1325, "V", 0, 0, 1326, "M", 516,
      516, 1327, "V", 0, 0, 1328, "X", 0, 0, 1329, "M", 517, 517, 1330, "M", 518, 518, 1331, "M",
      519, 519, 1332, "M", 520, 520, 1333, "M", 521, 521, 1334, "M", 522, 522, 1335, "M", 523, 523,
      1336, "M", 524, 524, 1337, "M", 525, 525, 1338, "M", 526, 526, 1339, "M", 527, 527, 1340, "M",
      528, 528, 1341, "M", 529, 529, 1342, "M", 530, 530, 1343, "M", 531, 531, 1344, "M", 532, 532,
      1345, "M", 533, 533, 1346, "M", 534, 534, 1347, "M", 535, 535, 1348, "M", 536, 536, 1349, "M",
      537, 537, 1350, "M", 538, 538, 1351, "M", 539, 539, 1352, "M", 540, 540, 1353, "M", 541, 541,
      1354, "M", 542, 542, 1355, "M", 543, 543, 1356, "M", 544, 544, 1357, "M", 545, 545, 1358, "M",
      546, 546, 1359, "M", 547, 547, 1360, "M", 548, 548, 1361, "M", 549, 549, 1362, "M", 550, 550,
      1363, "M", 551, 551, 1364, "M", 552, 552, 1365, "M", 553, 553, 1366, "M", 554, 554, 1367, "X",
      0, 0, 1369, "V", 0, 0, 1415, "M", 555, 556, 1416, "V", 0, 0, 1419, "X", 0, 0, 1421, "V", 0, 0,
      1424, "X", 0, 0, 1425, "V", 0, 0, 1480, "X", 0, 0, 1488, "V", 0, 0, 1515, "X", 0, 0, 1519,
      "V", 0, 0, 1525, "X", 0, 0, 1542, "V", 0, 0, 1564, "X", 0, 0, 1565, "V", 0, 0, 1653, "M", 557,
      558, 1654, "M", 559, 560, 1655, "M", 561, 562, 1656, "M", 563, 564, 1657, "V", 0, 0, 1757,
      "X", 0, 0, 1758, "V", 0, 0, 1806, "X", 0, 0, 1808, "V", 0, 0, 1867, "X", 0, 0, 1869, "V", 0,
      0, 1970, "X", 0, 0, 1984, "V", 0, 0, 2043, "X", 0, 0, 2045, "V", 0, 0, 2094, "X", 0, 0, 2096,
      "V", 0, 0, 2111, "X", 0, 0, 2112, "V", 0, 0, 2140, "X", 0, 0, 2142, "V", 0, 0, 2143, "X", 0,
      0, 2144, "V", 0, 0, 2155, "X", 0, 0, 2160, "V", 0, 0, 2191, "X", 0, 0, 2200, "V", 0, 0, 2274,
      "X", 0, 0, 2275, "V", 0, 0, 2392, "M", 565, 566, 2393, "M", 567, 568, 2394, "M", 569, 570,
      2395, "M", 571, 572, 2396, "M", 573, 574, 2397, "M", 575, 576, 2398, "M", 577, 578, 2399, "M",
      579, 580, 2400, "V", 0, 0, 2436, "X", 0, 0, 2437, "V", 0, 0, 2445, "X", 0, 0, 2447, "V", 0, 0,
      2449, "X", 0, 0, 2451, "V", 0, 0, 2473, "X", 0, 0, 2474, "V", 0, 0, 2481, "X", 0, 0, 2482,
      "V", 0, 0, 2483, "X", 0, 0, 2486, "V", 0, 0, 2490, "X", 0, 0, 2492, "V", 0, 0, 2501, "X", 0,
      0, 2503, "V", 0, 0, 2505, "X", 0, 0, 2507, "V", 0, 0, 2511, "X", 0, 0, 2519, "V", 0, 0, 2520,
      "X", 0, 0, 2524, "M", 581, 582, 2525, "M", 583, 584, 2526, "X", 0, 0, 2527, "M", 585, 586,
      2528, "V", 0, 0, 2532, "X", 0, 0, 2534, "V", 0, 0, 2559, "X", 0, 0, 2561, "V", 0, 0, 2564,
      "X", 0, 0, 2565, "V", 0, 0, 2571, "X", 0, 0, 2575, "V", 0, 0, 2577, "X", 0, 0, 2579, "V", 0,
      0, 2601, "X", 0, 0, 2602, "V", 0, 0, 2609, "X", 0, 0, 2610, "V", 0, 0, 2611, "M", 587, 588,
      2612, "X", 0, 0, 2613, "V", 0, 0, 2614, "M", 589, 590, 2615, "X", 0, 0, 2616, "V", 0, 0, 2618,
      "X", 0, 0, 2620, "V", 0, 0, 2621, "X", 0, 0, 2622, "V", 0, 0, 2627, "X", 0, 0, 2631, "V", 0,
      0, 2633, "X", 0, 0, 2635, "V", 0, 0, 2638, "X", 0, 0, 2641, "V", 0, 0, 2642, "X", 0, 0, 2649,
      "M", 591, 592, 2650, "M", 593, 594, 2651, "M", 595, 596, 2652, "V", 0, 0, 2653, "X", 0, 0,
      2654, "M", 597, 598, 2655, "X", 0, 0, 2662, "V", 0, 0, 2679, "X", 0, 0, 2689, "V", 0, 0, 2692,
      "X", 0, 0, 2693, "V", 0, 0, 2702, "X", 0, 0, 2703, "V", 0, 0, 2706, "X", 0, 0, 2707, "V", 0,
      0, 2729, "X", 0, 0, 2730, "V", 0, 0, 2737, "X", 0, 0, 2738, "V", 0, 0, 2740, "X", 0, 0, 2741,
      "V", 0, 0, 2746, "X", 0, 0, 2748, "V", 0, 0, 2758, "X", 0, 0, 2759, "V", 0, 0, 2762, "X", 0,
      0, 2763, "V", 0, 0, 2766, "X", 0, 0, 2768, "V", 0, 0, 2769, "X", 0, 0, 2784, "V", 0, 0, 2788,
      "X", 0, 0, 2790, "V", 0, 0, 2802, "X", 0, 0, 2809, "V", 0, 0, 2816, "X", 0, 0, 2817, "V", 0,
      0, 2820, "X", 0, 0, 2821, "V", 0, 0, 2829, "X", 0, 0, 2831, "V", 0, 0, 2833, "X", 0, 0, 2835,
      "V", 0, 0, 2857, "X", 0, 0, 2858, "V", 0, 0, 2865, "X", 0, 0, 2866, "V", 0, 0, 2868, "X", 0,
      0, 2869, "V", 0, 0, 2874, "X", 0, 0, 2876, "V", 0, 0, 2885, "X", 0, 0, 2887, "V", 0, 0, 2889,
      "X", 0, 0, 2891, "V", 0, 0, 2894, "X", 0, 0, 2901, "V", 0, 0, 2904, "X", 0, 0, 2908, "M", 599,
      600, 2909, "M", 601, 602, 2910, "X", 0, 0, 2911, "V", 0, 0, 2916, "X", 0, 0, 2918, "V", 0, 0,
      2936, "X", 0, 0, 2946, "V", 0, 0, 2948, "X", 0, 0, 2949, "V", 0, 0, 2955, "X", 0, 0, 2958,
      "V", 0, 0, 2961, "X", 0, 0, 2962, "V", 0, 0, 2966, "X", 0, 0, 2969, "V", 0, 0, 2971, "X", 0,
      0, 2972, "V", 0, 0, 2973, "X", 0, 0, 2974, "V", 0, 0, 2976, "X", 0, 0, 2979, "V", 0, 0, 2981,
      "X", 0, 0, 2984, "V", 0, 0, 2987, "X", 0, 0, 2990, "V", 0, 0, 3002, "X", 0, 0, 3006, "V", 0,
      0, 3011, "X", 0, 0, 3014, "V", 0, 0, 3017, "X", 0, 0, 3018, "V", 0, 0, 3022, "X", 0, 0, 3024,
      "V", 0, 0, 3025, "X", 0, 0, 3031, "V", 0, 0, 3032, "X", 0, 0, 3046, "V", 0, 0, 3067, "X", 0,
      0, 3072, "V", 0, 0, 3085, "X", 0, 0, 3086, "V", 0, 0, 3089, "X", 0, 0, 3090, "V", 0, 0, 3113,
      "X", 0, 0, 3114, "V", 0, 0, 3130, "X", 0, 0, 3132, "V", 0, 0, 3141, "X", 0, 0, 3142, "V", 0,
      0, 3145, "X", 0, 0, 3146, "V", 0, 0, 3150, "X", 0, 0, 3157, "V", 0, 0, 3159, "X", 0, 0, 3160,
      "V", 0, 0, 3163, "X", 0, 0, 3165, "V", 0, 0, 3166, "X", 0, 0, 3168, "V", 0, 0, 3172, "X", 0,
      0, 3174, "V", 0, 0, 3184, "X", 0, 0, 3191, "V", 0, 0, 3213, "X", 0, 0, 3214, "V", 0, 0, 3217,
      "X", 0, 0, 3218, "V", 0, 0, 3241, "X", 0, 0, 3242, "V", 0, 0, 3252, "X", 0, 0, 3253, "V", 0,
      0, 3258, "X", 0, 0, 3260, "V", 0, 0, 3269, "X", 0, 0, 3270, "V", 0, 0, 3273, "X", 0, 0, 3274,
      "V", 0, 0, 3278, "X", 0, 0, 3285, "V", 0, 0, 3287, "X", 0, 0, 3293, "V", 0, 0, 3295, "X", 0,
      0, 3296, "V", 0, 0, 3300, "X", 0, 0, 3302, "V", 0, 0, 3312, "X", 0, 0, 3313, "V", 0, 0, 3316,
      "X", 0, 0, 3328, "V", 0, 0, 3341, "X", 0, 0, 3342, "V", 0, 0, 3345, "X", 0, 0, 3346, "V", 0,
      0, 3397, "X", 0, 0, 3398, "V", 0, 0, 3401, "X", 0, 0, 3402, "V", 0, 0, 3408, "X", 0, 0, 3412,
      "V", 0, 0, 3428, "X", 0, 0, 3430, "V", 0, 0, 3456, "X", 0, 0, 3457, "V", 0, 0, 3460, "X", 0,
      0, 3461, "V", 0, 0, 3479, "X", 0, 0, 3482, "V", 0, 0, 3506, "X", 0, 0, 3507, "V", 0, 0, 3516,
      "X", 0, 0, 3517, "V", 0, 0, 3518, "X", 0, 0, 3520, "V", 0, 0, 3527, "X", 0, 0, 3530, "V", 0,
      0, 3531, "X", 0, 0, 3535, "V", 0, 0, 3541, "X", 0, 0, 3542, "V", 0, 0, 3543, "X", 0, 0, 3544,
      "V", 0, 0, 3552, "X", 0, 0, 3558, "V", 0, 0, 3568, "X", 0, 0, 3570, "V", 0, 0, 3573, "X", 0,
      0, 3585, "V", 0, 0, 3635, "M", 603, 604, 3636, "V", 0, 0, 3643, "X", 0, 0, 3647, "V", 0, 0,
      3676, "X", 0, 0, 3713, "V", 0, 0, 3715, "X", 0, 0, 3716, "V", 0, 0, 3717, "X", 0, 0, 3718,
      "V", 0, 0, 3723, "X", 0, 0, 3724, "V", 0, 0, 3748, "X", 0, 0, 3749, "V", 0, 0, 3750, "X", 0,
      0, 3751, "V", 0, 0, 3763, "M", 605, 606, 3764, "V", 0, 0, 3774, "X", 0, 0, 3776, "V", 0, 0,
      3781, "X", 0, 0, 3782, "V", 0, 0, 3783, "X", 0, 0, 3784, "V", 0, 0, 3791, "X", 0, 0, 3792,
      "V", 0, 0, 3802, "X", 0, 0, 3804, "M", 607, 608, 3805, "M", 609, 610, 3806, "V", 0, 0, 3808,
      "X", 0, 0, 3840, "V", 0, 0, 3852, "M", 611, 611, 3853, "V", 0, 0, 3907, "M", 612, 613, 3908,
      "V", 0, 0, 3912, "X", 0, 0, 3913, "V", 0, 0, 3917, "M", 614, 615, 3918, "V", 0, 0, 3922, "M",
      616, 617, 3923, "V", 0, 0, 3927, "M", 618, 619, 3928, "V", 0, 0, 3932, "M", 620, 621, 3933,
      "V", 0, 0, 3945, "M", 622, 623, 3946, "V", 0, 0, 3949, "X", 0, 0, 3953, "V", 0, 0, 3955, "M",
      624, 625, 3956, "V", 0, 0, 3957, "M", 626, 627, 3958, "M", 628, 629, 3959, "M", 630, 632,
      3960, "M", 633, 634, 3961, "M", 635, 637, 3962, "V", 0, 0, 3969, "M", 638, 639, 3970, "V", 0,
      0, 3987, "M", 640, 641, 3988, "V", 0, 0, 3992, "X", 0, 0, 3993, "V", 0, 0, 3997, "M", 642,
      643, 3998, "V", 0, 0, 4002, "M", 644, 645, 4003, "V", 0, 0, 4007, "M", 646, 647, 4008, "V", 0,
      0, 4012, "M", 648, 649, 4013, "V", 0, 0, 4025, "M", 650, 651, 4026, "V", 0, 0, 4029, "X", 0,
      0, 4030, "V", 0, 0, 4045, "X", 0, 0, 4046, "V", 0, 0, 4059, "X", 0, 0, 4096, "V", 0, 0, 4256,
      "X", 0, 0, 4295, "M", 652, 652, 4296, "X", 0, 0, 4301, "M", 653, 653, 4302, "X", 0, 0, 4304,
      "V", 0, 0, 4348, "M", 654, 654, 4349, "V", 0, 0, 4447, "X", 0, 0, 4449, "V", 0, 0, 4681, "X",
      0, 0, 4682, "V", 0, 0, 4686, "X", 0, 0, 4688, "V", 0, 0, 4695, "X", 0, 0, 4696, "V", 0, 0,
      4697, "X", 0, 0, 4698, "V", 0, 0, 4702, "X", 0, 0, 4704, "V", 0, 0, 4745, "X", 0, 0, 4746,
      "V", 0, 0, 4750, "X", 0, 0, 4752, "V", 0, 0, 4785, "X", 0, 0, 4786, "V", 0, 0, 4790, "X", 0,
      0, 4792, "V", 0, 0, 4799, "X", 0, 0, 4800, "V", 0, 0, 4801, "X", 0, 0, 4802, "V", 0, 0, 4806,
      "X", 0, 0, 4808, "V", 0, 0, 4823, "X", 0, 0, 4824, "V", 0, 0, 4881, "X", 0, 0, 4882, "V", 0,
      0, 4886, "X", 0, 0, 4888, "V", 0, 0, 4955, "X", 0, 0, 4957, "V", 0, 0, 4989, "X", 0, 0, 4992,
      "V", 0, 0, 5018, "X", 0, 0, 5024, "V", 0, 0, 5110, "X", 0, 0, 5112, "M", 655, 655, 5113, "M",
      656, 656, 5114, "M", 657, 657, 5115, "M", 658, 658, 5116, "M", 659, 659, 5117, "M", 660, 660,
      5118, "X", 0, 0, 5120, "V", 0, 0, 5760, "X", 0, 0, 5761, "V", 0, 0, 5789, "X", 0, 0, 5792,
      "V", 0, 0, 5881, "X", 0, 0, 5888, "V", 0, 0, 5910, "X", 0, 0, 5919, "V", 0, 0, 5943, "X", 0,
      0, 5952, "V", 0, 0, 5972, "X", 0, 0, 5984, "V", 0, 0, 5997, "X", 0, 0, 5998, "V", 0, 0, 6001,
      "X", 0, 0, 6002, "V", 0, 0, 6004, "X", 0, 0, 6016, "V", 0, 0, 6068, "X", 0, 0, 6070, "V", 0,
      0, 6110, "X", 0, 0, 6112, "V", 0, 0, 6122, "X", 0, 0, 6128, "V", 0, 0, 6138, "X", 0, 0, 6144,
      "V", 0, 0, 6150, "X", 0, 0, 6151, "V", 0, 0, 6155, "I", 0, 0, 6158, "X", 0, 0, 6159, "I", 0,
      0, 6160, "V", 0, 0, 6170, "X", 0, 0, 6176, "V", 0, 0, 6265, "X", 0, 0, 6272, "V", 0, 0, 6315,
      "X", 0, 0, 6320, "V", 0, 0, 6390, "X", 0, 0, 6400, "V", 0, 0, 6431, "X", 0, 0, 6432, "V", 0,
      0, 6444, "X", 0, 0, 6448, "V", 0, 0, 6460, "X", 0, 0, 6464, "V", 0, 0, 6465, "X", 0, 0, 6468,
      "V", 0, 0, 6510, "X", 0, 0, 6512, "V", 0, 0, 6517, "X", 0, 0, 6528, "V", 0, 0, 6572, "X", 0,
      0, 6576, "V", 0, 0, 6602, "X", 0, 0, 6608, "V", 0, 0, 6619, "X", 0, 0, 6622, "V", 0, 0, 6684,
      "X", 0, 0, 6686, "V", 0, 0, 6751, "X", 0, 0, 6752, "V", 0, 0, 6781, "X", 0, 0, 6783, "V", 0,
      0, 6794, "X", 0, 0, 6800, "V", 0, 0, 6810, "X", 0, 0, 6816, "V", 0, 0, 6830, "X", 0, 0, 6832,
      "V", 0, 0, 6863, "X", 0, 0, 6912, "V", 0, 0, 6989, "X", 0, 0, 6992, "V", 0, 0, 7039, "X", 0,
      0, 7040, "V", 0, 0, 7156, "X", 0, 0, 7164, "V", 0, 0, 7224, "X", 0, 0, 7227, "V", 0, 0, 7242,
      "X", 0, 0, 7245, "V", 0, 0, 7296, "M", 661, 661, 7297, "M", 662, 662, 7298, "M", 663, 663,
      7299, "M", 664, 664, 7300, "M", 665, 665, 7302, "M", 666, 666, 7303, "M", 667, 667, 7304, "M",
      668, 668, 7305, "X", 0, 0, 7312, "M", 669, 669, 7313, "M", 670, 670, 7314, "M", 671, 671,
      7315, "M", 672, 672, 7316, "M", 673, 673, 7317, "M", 674, 674, 7318, "M", 675, 675, 7319, "M",
      676, 676, 7320, "M", 677, 677, 7321, "M", 678, 678, 7322, "M", 679, 679, 7323, "M", 680, 680,
      7324, "M", 681, 681, 7325, "M", 682, 682, 7326, "M", 683, 683, 7327, "M", 684, 684, 7328, "M",
      685, 685, 7329, "M", 686, 686, 7330, "M", 687, 687, 7331, "M", 688, 688, 7332, "M", 689, 689,
      7333, "M", 690, 690, 7334, "M", 691, 691, 7335, "M", 692, 692, 7336, "M", 693, 693, 7337, "M",
      694, 694, 7338, "M", 695, 695, 7339, "M", 696, 696, 7340, "M", 697, 697, 7341, "M", 698, 698,
      7342, "M", 699, 699, 7343, "M", 700, 700, 7344, "M", 701, 701, 7345, "M", 702, 702, 7346, "M",
      703, 703, 7347, "M", 704, 704, 7348, "M", 705, 705, 7349, "M", 706, 706, 7350, "M", 707, 707,
      7351, "M", 708, 708, 7352, "M", 709, 709, 7353, "M", 710, 710, 7354, "M", 711, 711, 7355, "X",
      0, 0, 7357, "M", 712, 712, 7358, "M", 713, 713, 7359, "M", 714, 714, 7360, "V", 0, 0, 7368,
      "X", 0, 0, 7376, "V", 0, 0, 7419, "X", 0, 0, 7424, "V", 0, 0, 7468, "M", 715, 715, 7469, "M",
      716, 716, 7470, "M", 717, 717, 7471, "V", 0, 0, 7472, "M", 718, 718, 7473, "M", 719, 719,
      7474, "M", 720, 720, 7475, "M", 721, 721, 7476, "M", 722, 722, 7477, "M", 723, 723, 7478, "M",
      724, 724, 7479, "M", 725, 725, 7480, "M", 726, 726, 7481, "M", 727, 727, 7482, "M", 728, 728,
      7483, "V", 0, 0, 7484, "M", 729, 729, 7485, "M", 730, 730, 7486, "M", 731, 731, 7487, "M",
      732, 732, 7488, "M", 733, 733, 7489, "M", 734, 734, 7490, "M", 735, 735, 7491, "M", 736, 736,
      7492, "M", 737, 737, 7493, "M", 738, 738, 7494, "M", 739, 739, 7495, "M", 740, 740, 7496, "M",
      741, 741, 7497, "M", 742, 742, 7498, "M", 743, 743, 7499, "M", 744, 744, 7500, "M", 745, 745,
      7501, "M", 746, 746, 7502, "V", 0, 0, 7503, "M", 747, 747, 7504, "M", 748, 748, 7505, "M",
      749, 749, 7506, "M", 750, 750, 7507, "M", 751, 751, 7508, "M", 752, 752, 7509, "M", 753, 753,
      7510, "M", 754, 754, 7511, "M", 755, 755, 7512, "M", 756, 756, 7513, "M", 757, 757, 7514, "M",
      758, 758, 7515, "M", 759, 759, 7516, "M", 760, 760, 7517, "M", 761, 761, 7518, "M", 762, 762,
      7519, "M", 763, 763, 7520, "M", 764, 764, 7521, "M", 765, 765, 7522, "M", 766, 766, 7523, "M",
      767, 767, 7524, "M", 768, 768, 7525, "M", 769, 769, 7526, "M", 770, 770, 7527, "M", 771, 771,
      7528, "M", 772, 772, 7529, "M", 773, 773, 7530, "M", 774, 774, 7531, "V", 0, 0, 7544, "M",
      775, 775, 7545, "V", 0, 0, 7579, "M", 776, 776, 7580, "M", 777, 777, 7581, "M", 778, 778,
      7582, "M", 779, 779, 7583, "M", 780, 780, 7584, "M", 781, 781, 7585, "M", 782, 782, 7586, "M",
      783, 783, 7587, "M", 784, 784, 7588, "M", 785, 785, 7589, "M", 786, 786, 7590, "M", 787, 787,
      7591, "M", 788, 788, 7592, "M", 789, 789, 7593, "M", 790, 790, 7594, "M", 791, 791, 7595, "M",
      792, 792, 7596, "M", 793, 793, 7597, "M", 794, 794, 7598, "M", 795, 795, 7599, "M", 796, 796,
      7600, "M", 797, 797, 7601, "M", 798, 798, 7602, "M", 799, 799, 7603, "M", 800, 800, 7604, "M",
      801, 801, 7605, "M", 802, 802, 7606, "M", 803, 803, 7607, "M", 804, 804, 7608, "M", 805, 805,
      7609, "M", 806, 806, 7610, "M", 807, 807, 7611, "M", 808, 808, 7612, "M", 809, 809, 7613, "M",
      810, 810, 7614, "M", 811, 811, 7615, "M", 812, 812, 7616, "V", 0, 0, 7680, "M", 813, 813,
      7681, "V", 0, 0, 7682, "M", 814, 814, 7683, "V", 0, 0, 7684, "M", 815, 815, 7685, "V", 0, 0,
      7686, "M", 816, 816, 7687, "V", 0, 0, 7688, "M", 817, 817, 7689, "V", 0, 0, 7690, "M", 818,
      818, 7691, "V", 0, 0, 7692, "M", 819, 819, 7693, "V", 0, 0, 7694, "M", 820, 820, 7695, "V", 0,
      0, 7696, "M", 821, 821, 7697, "V", 0, 0, 7698, "M", 822, 822, 7699, "V", 0, 0, 7700, "M", 823,
      823, 7701, "V", 0, 0, 7702, "M", 824, 824, 7703, "V", 0, 0, 7704, "M", 825, 825, 7705, "V", 0,
      0, 7706, "M", 826, 826, 7707, "V", 0, 0, 7708, "M", 827, 827, 7709, "V", 0, 0, 7710, "M", 828,
      828, 7711, "V", 0, 0, 7712, "M", 829, 829, 7713, "V", 0, 0, 7714, "M", 830, 830, 7715, "V", 0,
      0, 7716, "M", 831, 831, 7717, "V", 0, 0, 7718, "M", 832, 832, 7719, "V", 0, 0, 7720, "M", 833,
      833, 7721, "V", 0, 0, 7722, "M", 834, 834, 7723, "V", 0, 0, 7724, "M", 835, 835, 7725, "V", 0,
      0, 7726, "M", 836, 836, 7727, "V", 0, 0, 7728, "M", 837, 837, 7729, "V", 0, 0, 7730, "M", 838,
      838, 7731, "V", 0, 0, 7732, "M", 839, 839, 7733, "V", 0, 0, 7734, "M", 840, 840, 7735, "V", 0,
      0, 7736, "M", 841, 841, 7737, "V", 0, 0, 7738, "M", 842, 842, 7739, "V", 0, 0, 7740, "M", 843,
      843, 7741, "V", 0, 0, 7742, "M", 844, 844, 7743, "V", 0, 0, 7744, "M", 845, 845, 7745, "V", 0,
      0, 7746, "M", 846, 846, 7747, "V", 0, 0, 7748, "M", 847, 847, 7749, "V", 0, 0, 7750, "M", 848,
      848, 7751, "V", 0, 0, 7752, "M", 849, 849, 7753, "V", 0, 0, 7754, "M", 850, 850, 7755, "V", 0,
      0, 7756, "M", 851, 851, 7757, "V", 0, 0, 7758, "M", 852, 852, 7759, "V", 0, 0, 7760, "M", 853,
      853, 7761, "V", 0, 0, 7762, "M", 854, 854, 7763, "V", 0, 0, 7764, "M", 855, 855, 7765, "V", 0,
      0, 7766, "M", 856, 856, 7767, "V", 0, 0, 7768, "M", 857, 857, 7769, "V", 0, 0, 7770, "M", 858,
      858, 7771, "V", 0, 0, 7772, "M", 859, 859, 7773, "V", 0, 0, 7774, "M", 860, 860, 7775, "V", 0,
      0, 7776, "M", 861, 861, 7777, "V", 0, 0, 7778, "M", 862, 862, 7779, "V", 0, 0, 7780, "M", 863,
      863, 7781, "V", 0, 0, 7782, "M", 864, 864, 7783, "V", 0, 0, 7784, "M", 865, 865, 7785, "V", 0,
      0, 7786, "M", 866, 866, 7787, "V", 0, 0, 7788, "M", 867, 867, 7789, "V", 0, 0, 7790, "M", 868,
      868, 7791, "V", 0, 0, 7792, "M", 869, 869, 7793, "V", 0, 0, 7794, "M", 870, 870, 7795, "V", 0,
      0, 7796, "M", 871, 871, 7797, "V", 0, 0, 7798, "M", 872, 872, 7799, "V", 0, 0, 7800, "M", 873,
      873, 7801, "V", 0, 0, 7802, "M", 874, 874, 7803, "V", 0, 0, 7804, "M", 875, 875, 7805, "V", 0,
      0, 7806, "M", 876, 876, 7807, "V", 0, 0, 7808, "M", 877, 877, 7809, "V", 0, 0, 7810, "M", 878,
      878, 7811, "V", 0, 0, 7812, "M", 879, 879, 7813, "V", 0, 0, 7814, "M", 880, 880, 7815, "V", 0,
      0, 7816, "M", 881, 881, 7817, "V", 0, 0, 7818, "M", 882, 882, 7819, "V", 0, 0, 7820, "M", 883,
      883, 7821, "V", 0, 0, 7822, "M", 884, 884, 7823, "V", 0, 0, 7824, "M", 885, 885, 7825, "V", 0,
      0, 7826, "M", 886, 886, 7827, "V", 0, 0, 7828, "M", 887, 887, 7829, "V", 0, 0, 7834, "M", 888,
      889, 7835, "M", 890, 890, 7836, "V", 0, 0, 7838, "M", 891, 892, 7839, "V", 0, 0, 7840, "M",
      893, 893, 7841, "V", 0, 0, 7842, "M", 894, 894, 7843, "V", 0, 0, 7844, "M", 895, 895, 7845,
      "V", 0, 0, 7846, "M", 896, 896, 7847, "V", 0, 0, 7848, "M", 897, 897, 7849, "V", 0, 0, 7850,
      "M", 898, 898, 7851, "V", 0, 0, 7852, "M", 899, 899, 7853, "V", 0, 0, 7854, "M", 900, 900,
      7855, "V", 0, 0, 7856, "M", 901, 901, 7857, "V", 0, 0, 7858, "M", 902, 902, 7859, "V", 0, 0,
      7860, "M", 903, 903, 7861, "V", 0, 0, 7862, "M", 904, 904, 7863, "V", 0, 0, 7864, "M", 905,
      905, 7865, "V", 0, 0, 7866, "M", 906, 906, 7867, "V", 0, 0, 7868, "M", 907, 907, 7869, "V", 0,
      0, 7870, "M", 908, 908, 7871, "V", 0, 0, 7872, "M", 909, 909, 7873, "V", 0, 0, 7874, "M", 910,
      910, 7875, "V", 0, 0, 7876, "M", 911, 911, 7877, "V", 0, 0, 7878, "M", 912, 912, 7879, "V", 0,
      0, 7880, "M", 913, 913, 7881, "V", 0, 0, 7882, "M", 914, 914, 7883, "V", 0, 0, 7884, "M", 915,
      915, 7885, "V", 0, 0, 7886, "M", 916, 916, 7887, "V", 0, 0, 7888, "M", 917, 917, 7889, "V", 0,
      0, 7890, "M", 918, 918, 7891, "V", 0, 0, 7892, "M", 919, 919, 7893, "V", 0, 0, 7894, "M", 920,
      920, 7895, "V", 0, 0, 7896, "M", 921, 921, 7897, "V", 0, 0, 7898, "M", 922, 922, 7899, "V", 0,
      0, 7900, "M", 923, 923, 7901, "V", 0, 0, 7902, "M", 924, 924, 7903, "V", 0, 0, 7904, "M", 925,
      925, 7905, "V", 0, 0, 7906, "M", 926, 926, 7907, "V", 0, 0, 7908, "M", 927, 927, 7909, "V", 0,
      0, 7910, "M", 928, 928, 7911, "V", 0, 0, 7912, "M", 929, 929, 7913, "V", 0, 0, 7914, "M", 930,
      930, 7915, "V", 0, 0, 7916, "M", 931, 931, 7917, "V", 0, 0, 7918, "M", 932, 932, 7919, "V", 0,
      0, 7920, "M", 933, 933, 7921, "V", 0, 0, 7922, "M", 934, 934, 7923, "V", 0, 0, 7924, "M", 935,
      935, 7925, "V", 0, 0, 7926, "M", 936, 936, 7927, "V", 0, 0, 7928, "M", 937, 937, 7929, "V", 0,
      0, 7930, "M", 938, 938, 7931, "V", 0, 0, 7932, "M", 939, 939, 7933, "V", 0, 0, 7934, "M", 940,
      940, 7935, "V", 0, 0, 7944, "M", 941, 941, 7945, "M", 942, 942, 7946, "M", 943, 943, 7947,
      "M", 944, 944, 7948, "M", 945, 945, 7949, "M", 946, 946, 7950, "M", 947, 947, 7951, "M", 948,
      948, 7952, "V", 0, 0, 7958, "X", 0, 0, 7960, "M", 949, 949, 7961, "M", 950, 950, 7962, "M",
      951, 951, 7963, "M", 952, 952, 7964, "M", 953, 953, 7965, "M", 954, 954, 7966, "X", 0, 0,
      7968, "V", 0, 0, 7976, "M", 955, 955, 7977, "M", 956, 956, 7978, "M", 957, 957, 7979, "M",
      958, 958, 7980, "M", 959, 959, 7981, "M", 960, 960, 7982, "M", 961, 961, 7983, "M", 962, 962,
      7984, "V", 0, 0, 7992, "M", 963, 963, 7993, "M", 964, 964, 7994, "M", 965, 965, 7995, "M",
      966, 966, 7996, "M", 967, 967, 7997, "M", 968, 968, 7998, "M", 969, 969, 7999, "M", 970, 970,
      8000, "V", 0, 0, 8006, "X", 0, 0, 8008, "M", 971, 971, 8009, "M", 972, 972, 8010, "M", 973,
      973, 8011, "M", 974, 974, 8012, "M", 975, 975, 8013, "M", 976, 976, 8014, "X", 0, 0, 8016,
      "V", 0, 0, 8024, "X", 0, 0, 8025, "M", 977, 977, 8026, "X", 0, 0, 8027, "M", 978, 978, 8028,
      "X", 0, 0, 8029, "M", 979, 979, 8030, "X", 0, 0, 8031, "M", 980, 980, 8032, "V", 0, 0, 8040,
      "M", 981, 981, 8041, "M", 982, 982, 8042, "M", 983, 983, 8043, "M", 984, 984, 8044, "M", 985,
      985, 8045, "M", 986, 986, 8046, "M", 987, 987, 8047, "M", 988, 988, 8048, "V", 0, 0, 8049,
      "M", 989, 989, 8050, "V", 0, 0, 8051, "M", 990, 990, 8052, "V", 0, 0, 8053, "M", 991, 991,
      8054, "V", 0, 0, 8055, "M", 992, 992, 8056, "V", 0, 0, 8057, "M", 993, 993, 8058, "V", 0, 0,
      8059, "M", 994, 994, 8060, "V", 0, 0, 8061, "M", 995, 995, 8062, "X", 0, 0, 8064, "M", 996,
      997, 8065, "M", 998, 999, 8066, "M", 1000, 1001, 8067, "M", 1002, 1003, 8068, "M", 1004, 1005,
      8069, "M", 1006, 1007, 8070, "M", 1008, 1009, 8071, "M", 1010, 1011, 8072, "M", 1012, 1013,
      8073, "M", 1014, 1015, 8074, "M", 1016, 1017, 8075, "M", 1018, 1019, 8076, "M", 1020, 1021,
      8077, "M", 1022, 1023, 8078, "M", 1024, 1025, 8079, "M", 1026, 1027, 8080, "M", 1028, 1029,
      8081, "M", 1030, 1031, 8082, "M", 1032, 1033, 8083, "M", 1034, 1035, 8084, "M", 1036, 1037,
      8085, "M", 1038, 1039, 8086, "M", 1040, 1041, 8087, "M", 1042, 1043, 8088, "M", 1044, 1045,
      8089, "M", 1046, 1047, 8090, "M", 1048, 1049, 8091, "M", 1050, 1051, 8092, "M", 1052, 1053,
      8093, "M", 1054, 1055, 8094, "M", 1056, 1057, 8095, "M", 1058, 1059, 8096, "M", 1060, 1061,
      8097, "M", 1062, 1063, 8098, "M", 1064, 1065, 8099, "M", 1066, 1067, 8100, "M", 1068, 1069,
      8101, "M", 1070, 1071, 8102, "M", 1072, 1073, 8103, "M", 1074, 1075, 8104, "M", 1076, 1077,
      8105, "M", 1078, 1079, 8106, "M", 1080, 1081, 8107, "M", 1082, 1083, 8108, "M", 1084, 1085,
      8109, "M", 1086, 1087, 8110, "M", 1088, 1089, 8111, "M", 1090, 1091, 8112, "V", 0, 0, 8114,
      "M", 1092, 1093, 8115, "M", 1094, 1095, 8116, "M", 1096, 1097, 8117, "X", 0, 0, 8118, "V", 0,
      0, 8119, "M", 1098, 1099, 8120, "M", 1100, 1100, 8121, "M", 1101, 1101, 8122, "M", 1102, 1102,
      8123, "M", 1103, 1103, 8124, "M", 1104, 1105, 8125, "3", 1106, 1107, 8126, "M", 1108, 1108,
      8127, "3", 1109, 1110, 8128, "3", 1111, 1112, 8129, "3", 1113, 1115, 8130, "M", 1116, 1117,
      8131, "M", 1118, 1119, 8132, "M", 1120, 1121, 8133, "X", 0, 0, 8134, "V", 0, 0, 8135, "M",
      1122, 1123, 8136, "M", 1124, 1124, 8137, "M", 1125, 1125, 8138, "M", 1126, 1126, 8139, "M",
      1127, 1127, 8140, "M", 1128, 1129, 8141, "3", 1130, 1132, 8142, "3", 1133, 1135, 8143, "3",
      1136, 1138, 8144, "V", 0, 0, 8147, "M", 1139, 1139, 8148, "X", 0, 0, 8150, "V", 0, 0, 8152,
      "M", 1140, 1140, 8153, "M", 1141, 1141, 8154, "M", 1142, 1142, 8155, "M", 1143, 1143, 8156,
      "X", 0, 0, 8157, "3", 1144, 1146, 8158, "3", 1147, 1149, 8159, "3", 1150, 1152, 8160, "V", 0,
      0, 8163, "M", 1153, 1153, 8164, "V", 0, 0, 8168, "M", 1154, 1154, 8169, "M", 1155, 1155, 8170,
      "M", 1156, 1156, 8171, "M", 1157, 1157, 8172, "M", 1158, 1158, 8173, "3", 1159, 1161, 8174,
      "3", 1162, 1164, 8175, "3", 1165, 1165, 8176, "X", 0, 0, 8178, "M", 1166, 1167, 8179, "M",
      1168, 1169, 8180, "M", 1170, 1171, 8181, "X", 0, 0, 8182, "V", 0, 0, 8183, "M", 1172, 1173,
      8184, "M", 1174, 1174, 8185, "M", 1175, 1175, 8186, "M", 1176, 1176, 8187, "M", 1177, 1177,
      8188, "M", 1178, 1179, 8189, "3", 1180, 1181, 8190, "3", 1182, 1183, 8191, "X", 0, 0, 8192,
      "3", 1184, 1184, 8203, "I", 0, 0, 8204, "D", 1185, 1184, 8206, "X", 0, 0, 8208, "V", 0, 0,
      8209, "M", 1185, 1185, 8210, "V", 0, 0, 8215, "3", 1186, 1187, 8216, "V", 0, 0, 8228, "X", 0,
      0, 8231, "V", 0, 0, 8232, "X", 0, 0, 8239, "3", 1188, 1188, 8240, "V", 0, 0, 8243, "M", 1189,
      1190, 8244, "M", 1191, 1193, 8245, "V", 0, 0, 8246, "M", 1194, 1195, 8247, "M", 1196, 1198,
      8248, "V", 0, 0, 8252, "3", 1199, 1200, 8253, "V", 0, 0, 8254, "3", 1201, 1202, 8255, "V", 0,
      0, 8263, "3", 1203, 1204, 8264, "3", 1205, 1206, 8265, "3", 1207, 1208, 8266, "V", 0, 0, 8279,
      "M", 1209, 1212, 8280, "V", 0, 0, 8287, "3", 1213, 1213, 8288, "I", 0, 0, 8289, "X", 0, 0,
      8292, "I", 0, 0, 8293, "X", 0, 0, 8304, "M", 1214, 1214, 8305, "M", 1215, 1215, 8306, "X", 0,
      0, 8308, "M", 1216, 1216, 8309, "M", 1217, 1217, 8310, "M", 1218, 1218, 8311, "M", 1219, 1219,
      8312, "M", 1220, 1220, 8313, "M", 1221, 1221, 8314, "3", 1222, 1222, 8315, "M", 1223, 1223,
      8316, "3", 1224, 1224, 8317, "3", 1225, 1225, 8318, "3", 1226, 1226, 8319, "M", 1227, 1227,
      8320, "M", 1228, 1228, 8321, "M", 1229, 1229, 8322, "M", 1230, 1230, 8323, "M", 1231, 1231,
      8324, "M", 1232, 1232, 8325, "M", 1233, 1233, 8326, "M", 1234, 1234, 8327, "M", 1235, 1235,
      8328, "M", 1236, 1236, 8329, "M", 1237, 1237, 8330, "3", 1238, 1238, 8331, "M", 1239, 1239,
      8332, "3", 1240, 1240, 8333, "3", 1241, 1241, 8334, "3", 1242, 1242, 8335, "X", 0, 0, 8336,
      "M", 1243, 1243, 8337, "M", 1244, 1244, 8338, "M", 1245, 1245, 8339, "M", 1246, 1246, 8340,
      "M", 1247, 1247, 8341, "M", 1248, 1248, 8342, "M", 1249, 1249, 8343, "M", 1250, 1250, 8344,
      "M", 1251, 1251, 8345, "M", 1252, 1252, 8346, "M", 1253, 1253, 8347, "M", 1254, 1254, 8348,
      "M", 1255, 1255, 8349, "X", 0, 0, 8352, "V", 0, 0, 8360, "M", 1256, 1257, 8361, "V", 0, 0,
      8385, "X", 0, 0, 8400, "V", 0, 0, 8433, "X", 0, 0, 8448, "3", 1258, 1260, 8449, "3", 1261,
      1263, 8450, "M", 1264, 1264, 8451, "M", 1265, 1266, 8452, "V", 0, 0, 8453, "3", 1267, 1269,
      8454, "3", 1270, 1272, 8455, "M", 1273, 1273, 8456, "V", 0, 0, 8457, "M", 1274, 1275, 8458,
      "M", 1276, 1276, 8459, "M", 1277, 1277, 8463, "M", 1278, 1278, 8464, "M", 1279, 1279, 8466,
      "M", 1280, 1280, 8468, "V", 0, 0, 8469, "M", 1281, 1281, 8470, "M", 1282, 1283, 8471, "V", 0,
      0, 8473, "M", 1284, 1284, 8474, "M", 1285, 1285, 8475, "M", 1286, 1286, 8478, "V", 0, 0, 8480,
      "M", 1287, 1288, 8481, "M", 1289, 1291, 8482, "M", 1292, 1293, 8483, "V", 0, 0, 8484, "M",
      1294, 1294, 8485, "V", 0, 0, 8486, "M", 1295, 1295, 8487, "V", 0, 0, 8488, "M", 1296, 1296,
      8489, "V", 0, 0, 8490, "M", 1297, 1297, 8491, "M", 1298, 1298, 8492, "M", 1299, 1299, 8493,
      "M", 1300, 1300, 8494, "V", 0, 0, 8495, "M", 1301, 1301, 8497, "M", 1302, 1302, 8498, "X", 0,
      0, 8499, "M", 1303, 1303, 8500, "M", 1304, 1304, 8501, "M", 1305, 1305, 8502, "M", 1306, 1306,
      8503, "M", 1307, 1307, 8504, "M", 1308, 1308, 8505, "M", 1309, 1309, 8506, "V", 0, 0, 8507,
      "M", 1310, 1312, 8508, "M", 1313, 1313, 8509, "M", 1314, 1314, 8511, "M", 1315, 1315, 8512,
      "M", 1316, 1316, 8513, "V", 0, 0, 8517, "M", 1317, 1317, 8519, "M", 1318, 1318, 8520, "M",
      1319, 1319, 8521, "M", 1320, 1320, 8522, "V", 0, 0, 8528, "M", 1321, 1323, 8529, "M", 1324,
      1326, 8530, "M", 1327, 1330, 8531, "M", 1331, 1333, 8532, "M", 1334, 1336, 8533, "M", 1337,
      1339, 8534, "M", 1340, 1342, 8535, "M", 1343, 1345, 8536, "M", 1346, 1348, 8537, "M", 1349,
      1351, 8538, "M", 1352, 1354, 8539, "M", 1355, 1357, 8540, "M", 1358, 1360, 8541, "M", 1361,
      1363, 8542, "M", 1364, 1366, 8543, "M", 1367, 1368, 8544, "M", 1369, 1369, 8545, "M", 1370,
      1371, 8546, "M", 1372, 1374, 8547, "M", 1375, 1376, 8548, "M", 1377, 1377, 8549, "M", 1378,
      1379, 8550, "M", 1380, 1382, 8551, "M", 1383, 1386, 8552, "M", 1387, 1388, 8553, "M", 1389,
      1389, 8554, "M", 1390, 1391, 8555, "M", 1392, 1394, 8556, "M", 1395, 1395, 8557, "M", 1396,
      1396, 8558, "M", 1397, 1397, 8559, "M", 1398, 1398, 8560, "M", 1399, 1399, 8561, "M", 1400,
      1401, 8562, "M", 1402, 1404, 8563, "M", 1405, 1406, 8564, "M", 1407, 1407, 8565, "M", 1408,
      1409, 8566, "M", 1410, 1412, 8567, "M", 1413, 1416, 8568, "M", 1417, 1418, 8569, "M", 1419,
      1419, 8570, "M", 1420, 1421, 8571, "M", 1422, 1424, 8572, "M", 1425, 1425, 8573, "M", 1426,
      1426, 8574, "M", 1427, 1427, 8575, "M", 1428, 1428, 8576, "V", 0, 0, 8579, "X", 0, 0, 8580,
      "V", 0, 0, 8585, "M", 1429, 1431, 8586, "V", 0, 0, 8588, "X", 0, 0, 8592, "V", 0, 0, 8748,
      "M", 1432, 1433, 8749, "M", 1434, 1436, 8750, "V", 0, 0, 8751, "M", 1437, 1438, 8752, "M",
      1439, 1441, 8753, "V", 0, 0, 8800, "3", 0, 0, 8801, "V", 0, 0, 8814, "3", 0, 0, 8816, "V", 0,
      0, 9001, "M", 1442, 1442, 9002, "M", 1443, 1443, 9003, "V", 0, 0, 9255, "X", 0, 0, 9280, "V",
      0, 0, 9291, "X", 0, 0, 9312, "M", 1444, 1444, 9313, "M", 1445, 1445, 9314, "M", 1446, 1446,
      9315, "M", 1447, 1447, 9316, "M", 1448, 1448, 9317, "M", 1449, 1449, 9318, "M", 1450, 1450,
      9319, "M", 1451, 1451, 9320, "M", 1452, 1452, 9321, "M", 1453, 1454, 9322, "M", 1455, 1456,
      9323, "M", 1457, 1458, 9324, "M", 1459, 1460, 9325, "M", 1461, 1462, 9326, "M", 1463, 1464,
      9327, "M", 1465, 1466, 9328, "M", 1467, 1468, 9329, "M", 1469, 1470, 9330, "M", 1471, 1472,
      9331, "M", 1473, 1474, 9332, "3", 1475, 1477, 9333, "3", 1478, 1480, 9334, "3", 1481, 1483,
      9335, "3", 1484, 1486, 9336, "3", 1487, 1489, 9337, "3", 1490, 1492, 9338, "3", 1493, 1495,
      9339, "3", 1496, 1498, 9340, "3", 1499, 1501, 9341, "3", 1502, 1505, 9342, "3", 1506, 1509,
      9343, "3", 1510, 1513, 9344, "3", 1514, 1517, 9345, "3", 1518, 1521, 9346, "3", 1522, 1525,
      9347, "3", 1526, 1529, 9348, "3", 1530, 1533, 9349, "3", 1534, 1537, 9350, "3", 1538, 1541,
      9351, "3", 1542, 1545, 9352, "X", 0, 0, 9372, "3", 1546, 1548, 9373, "3", 1549, 1551, 9374,
      "3", 1552, 1554, 9375, "3", 1555, 1557, 9376, "3", 1558, 1560, 9377, "3", 1561, 1563, 9378,
      "3", 1564, 1566, 9379, "3", 1567, 1569, 9380, "3", 1570, 1572, 9381, "3", 1573, 1575, 9382,
      "3", 1576, 1578, 9383, "3", 1579, 1581, 9384, "3", 1582, 1584, 9385, "3", 1585, 1587, 9386,
      "3", 1588, 1590, 9387, "3", 1591, 1593, 9388, "3", 1594, 1596, 9389, "3", 1597, 1599, 9390,
      "3", 1600, 1602, 9391, "3", 1603, 1605, 9392, "3", 1606, 1608, 9393, "3", 1609, 1611, 9394,
      "3", 1612, 1614, 9395, "3", 1615, 1617, 9396, "3", 1618, 1620, 9397, "3", 1621, 1623, 9398,
      "M", 1624, 1624, 9399, "M", 1625, 1625, 9400, "M", 1626, 1626, 9401, "M", 1627, 1627, 9402,
      "M", 1628, 1628, 9403, "M", 1629, 1629, 9404, "M", 1630, 1630, 9405, "M", 1631, 1631, 9406,
      "M", 1632, 1632, 9407, "M", 1633, 1633, 9408, "M", 1634, 1634, 9409, "M", 1635, 1635, 9410,
      "M", 1636, 1636, 9411, "M", 1637, 1637, 9412, "M", 1638, 1638, 9413, "M", 1639, 1639, 9414,
      "M", 1640, 1640, 9415, "M", 1641, 1641, 9416, "M", 1642, 1642, 9417, "M", 1643, 1643, 9418,
      "M", 1644, 1644, 9419, "M", 1645, 1645, 9420, "M", 1646, 1646, 9421, "M", 1647, 1647, 9422,
      "M", 1648, 1648, 9423, "M", 1649, 1649, 9424, "M", 1650, 1650, 9425, "M", 1651, 1651, 9426,
      "M", 1652, 1652, 9427, "M", 1653, 1653, 9428, "M", 1654, 1654, 9429, "M", 1655, 1655, 9430,
      "M", 1656, 1656, 9431, "M", 1657, 1657, 9432, "M", 1658, 1658, 9433, "M", 1659, 1659, 9434,
      "M", 1660, 1660, 9435, "M", 1661, 1661, 9436, "M", 1662, 1662, 9437, "M", 1663, 1663, 9438,
      "M", 1664, 1664, 9439, "M", 1665, 1665, 9440, "M", 1666, 1666, 9441, "M", 1667, 1667, 9442,
      "M", 1668, 1668, 9443, "M", 1669, 1669, 9444, "M", 1670, 1670, 9445, "M", 1671, 1671, 9446,
      "M", 1672, 1672, 9447, "M", 1673, 1673, 9448, "M", 1674, 1674, 9449, "M", 1675, 1675, 9450,
      "M", 1676, 1676, 9451, "V", 0, 0, 10764, "M", 1677, 1680, 10765, "V", 0, 0, 10868, "3", 1681,
      1683, 10869, "3", 1684, 1685, 10870, "3", 1686, 1688, 10871, "V", 0, 0, 10972, "M", 1689,
      1690, 10973, "V", 0, 0, 11124, "X", 0, 0, 11126, "V", 0, 0, 11158, "X", 0, 0, 11159, "V", 0,
      0, 11264, "M", 1691, 1691, 11265, "M", 1692, 1692, 11266, "M", 1693, 1693, 11267, "M", 1694,
      1694, 11268, "M", 1695, 1695, 11269, "M", 1696, 1696, 11270, "M", 1697, 1697, 11271, "M",
      1698, 1698, 11272, "M", 1699, 1699, 11273, "M", 1700, 1700, 11274, "M", 1701, 1701, 11275,
      "M", 1702, 1702, 11276, "M", 1703, 1703, 11277, "M", 1704, 1704, 11278, "M", 1705, 1705,
      11279, "M", 1706, 1706, 11280, "M", 1707, 1707, 11281, "M", 1708, 1708, 11282, "M", 1709,
      1709, 11283, "M", 1710, 1710, 11284, "M", 1711, 1711, 11285, "M", 1712, 1712, 11286, "M",
      1713, 1713, 11287, "M", 1714, 1714, 11288, "M", 1715, 1715, 11289, "M", 1716, 1716, 11290,
      "M", 1717, 1717, 11291, "M", 1718, 1718, 11292, "M", 1719, 1719, 11293, "M", 1720, 1720,
      11294, "M", 1721, 1721, 11295, "M", 1722, 1722, 11296, "M", 1723, 1723, 11297, "M", 1724,
      1724, 11298, "M", 1725, 1725, 11299, "M", 1726, 1726, 11300, "M", 1727, 1727, 11301, "M",
      1728, 1728, 11302, "M", 1729, 1729, 11303, "M", 1730, 1730, 11304, "M", 1731, 1731, 11305,
      "M", 1732, 1732, 11306, "M", 1733, 1733, 11307, "M", 1734, 1734, 11308, "M", 1735, 1735,
      11309, "M", 1736, 1736, 11310, "M", 1737, 1737, 11311, "M", 1738, 1738, 11312, "V", 0, 0,
      11360, "M", 1739, 1739, 11361, "V", 0, 0, 11362, "M", 1740, 1740, 11363, "M", 1741, 1741,
      11364, "M", 1742, 1742, 11365, "V", 0, 0, 11367, "M", 1743, 1743, 11368, "V", 0, 0, 11369,
      "M", 1744, 1744, 11370, "V", 0, 0, 11371, "M", 1745, 1745, 11372, "V", 0, 0, 11373, "M", 1746,
      1746, 11374, "M", 1747, 1747, 11375, "M", 1748, 1748, 11376, "M", 1749, 1749, 11377, "V", 0,
      0, 11378, "M", 1750, 1750, 11379, "V", 0, 0, 11381, "M", 1751, 1751, 11382, "V", 0, 0, 11388,
      "M", 1752, 1752, 11389, "M", 1753, 1753, 11390, "M", 1754, 1754, 11391, "M", 1755, 1755,
      11392, "M", 1756, 1756, 11393, "V", 0, 0, 11394, "M", 1757, 1757, 11395, "V", 0, 0, 11396,
      "M", 1758, 1758, 11397, "V", 0, 0, 11398, "M", 1759, 1759, 11399, "V", 0, 0, 11400, "M", 1760,
      1760, 11401, "V", 0, 0, 11402, "M", 1761, 1761, 11403, "V", 0, 0, 11404, "M", 1762, 1762,
      11405, "V", 0, 0, 11406, "M", 1763, 1763, 11407, "V", 0, 0, 11408, "M", 1764, 1764, 11409,
      "V", 0, 0, 11410, "M", 1765, 1765, 11411, "V", 0, 0, 11412, "M", 1766, 1766, 11413, "V", 0, 0,
      11414, "M", 1767, 1767, 11415, "V", 0, 0, 11416, "M", 1768, 1768, 11417, "V", 0, 0, 11418,
      "M", 1769, 1769, 11419, "V", 0, 0, 11420, "M", 1770, 1770, 11421, "V", 0, 0, 11422, "M", 1771,
      1771, 11423, "V", 0, 0, 11424, "M", 1772, 1772, 11425, "V", 0, 0, 11426, "M", 1773, 1773,
      11427, "V", 0, 0, 11428, "M", 1774, 1774, 11429, "V", 0, 0, 11430, "M", 1775, 1775, 11431,
      "V", 0, 0, 11432, "M", 1776, 1776, 11433, "V", 0, 0, 11434, "M", 1777, 1777, 11435, "V", 0, 0,
      11436, "M", 1778, 1778, 11437, "V", 0, 0, 11438, "M", 1779, 1779, 11439, "V", 0, 0, 11440,
      "M", 1780, 1780, 11441, "V", 0, 0, 11442, "M", 1781, 1781, 11443, "V", 0, 0, 11444, "M", 1782,
      1782, 11445, "V", 0, 0, 11446, "M", 1783, 1783, 11447, "V", 0, 0, 11448, "M", 1784, 1784,
      11449, "V", 0, 0, 11450, "M", 1785, 1785, 11451, "V", 0, 0, 11452, "M", 1786, 1786, 11453,
      "V", 0, 0, 11454, "M", 1787, 1787, 11455, "V", 0, 0, 11456, "M", 1788, 1788, 11457, "V", 0, 0,
      11458, "M", 1789, 1789, 11459, "V", 0, 0, 11460, "M", 1790, 1790, 11461, "V", 0, 0, 11462,
      "M", 1791, 1791, 11463, "V", 0, 0, 11464, "M", 1792, 1792, 11465, "V", 0, 0, 11466, "M", 1793,
      1793, 11467, "V", 0, 0, 11468, "M", 1794, 1794, 11469, "V", 0, 0, 11470, "M", 1795, 1795,
      11471, "V", 0, 0, 11472, "M", 1796, 1796, 11473, "V", 0, 0, 11474, "M", 1797, 1797, 11475,
      "V", 0, 0, 11476, "M", 1798, 1798, 11477, "V", 0, 0, 11478, "M", 1799, 1799, 11479, "V", 0, 0,
      11480, "M", 1800, 1800, 11481, "V", 0, 0, 11482, "M", 1801, 1801, 11483, "V", 0, 0, 11484,
      "M", 1802, 1802, 11485, "V", 0, 0, 11486, "M", 1803, 1803, 11487, "V", 0, 0, 11488, "M", 1804,
      1804, 11489, "V", 0, 0, 11490, "M", 1805, 1805, 11491, "V", 0, 0, 11499, "M", 1806, 1806,
      11500, "V", 0, 0, 11501, "M", 1807, 1807, 11502, "V", 0, 0, 11506, "M", 1808, 1808, 11507,
      "V", 0, 0, 11508, "X", 0, 0, 11513, "V", 0, 0, 11558, "X", 0, 0, 11559, "V", 0, 0, 11560, "X",
      0, 0, 11565, "V", 0, 0, 11566, "X", 0, 0, 11568, "V", 0, 0, 11624, "X", 0, 0, 11631, "M",
      1809, 1809, 11632, "V", 0, 0, 11633, "X", 0, 0, 11647, "V", 0, 0, 11671, "X", 0, 0, 11680,
      "V", 0, 0, 11687, "X", 0, 0, 11688, "V", 0, 0, 11695, "X", 0, 0, 11696, "V", 0, 0, 11703, "X",
      0, 0, 11704, "V", 0, 0, 11711, "X", 0, 0, 11712, "V", 0, 0, 11719, "X", 0, 0, 11720, "V", 0,
      0, 11727, "X", 0, 0, 11728, "V", 0, 0, 11735, "X", 0, 0, 11736, "V", 0, 0, 11743, "X", 0, 0,
      11744, "V", 0, 0, 11870, "X", 0, 0, 11904, "V", 0, 0, 11930, "X", 0, 0, 11931, "V", 0, 0,
      11935, "M", 1810, 1810, 11936, "V", 0, 0, 12019, "M", 1811, 1811, 12020, "X", 0, 0, 12032,
      "M", 1812, 1812, 12033, "M", 1813, 1813, 12034, "M", 1814, 1814, 12035, "M", 1815, 1815,
      12036, "M", 1816, 1816, 12037, "M", 1817, 1817, 12038, "M", 1818, 1818, 12039, "M", 1819,
      1819, 12040, "M", 1820, 1820, 12041, "M", 1821, 1821, 12042, "M", 1822, 1822, 12043, "M",
      1823, 1823, 12044, "M", 1824, 1824, 12045, "M", 1825, 1825, 12046, "M", 1826, 1826, 12047,
      "M", 1827, 1827, 12048, "M", 1828, 1828, 12049, "M", 1829, 1829, 12050, "M", 1830, 1830,
      12051, "M", 1831, 1831, 12052, "M", 1832, 1832, 12053, "M", 1833, 1833, 12054, "M", 1834,
      1834, 12055, "M", 1835, 1835, 12056, "M", 1836, 1836, 12057, "M", 1837, 1837, 12058, "M",
      1838, 1838, 12059, "M", 1839, 1839, 12060, "M", 1840, 1840, 12061, "M", 1841, 1841, 12062,
      "M", 1842, 1842, 12063, "M", 1843, 1843, 12064, "M", 1844, 1844, 12065, "M", 1845, 1845,
      12066, "M", 1846, 1846, 12067, "M", 1847, 1847, 12068, "M", 1848, 1848, 12069, "M", 1849,
      1849, 12070, "M", 1850, 1850, 12071, "M", 1851, 1851, 12072, "M", 1852, 1852, 12073, "M",
      1853, 1853, 12074, "M", 1854, 1854, 12075, "M", 1855, 1855, 12076, "M", 1856, 1856, 12077,
      "M", 1857, 1857, 12078, "M", 1858, 1858, 12079, "M", 1859, 1859, 12080, "M", 1860, 1860,
      12081, "M", 1861, 1861, 12082, "M", 1862, 1862, 12083, "M", 1863, 1863, 12084, "M", 1864,
      1864, 12085, "M", 1865, 1865, 12086, "M", 1866, 1866, 12087, "M", 1867, 1867, 12088, "M",
      1868, 1868, 12089, "M", 1869, 1869, 12090, "M", 1870, 1870, 12091, "M", 1871, 1871, 12092,
      "M", 1872, 1872, 12093, "M", 1873, 1873, 12094, "M", 1874, 1874, 12095, "M", 1875, 1875,
      12096, "M", 1876, 1876, 12097, "M", 1877, 1877, 12098, "M", 1878, 1878, 12099, "M", 1879,
      1879, 12100, "M", 1880, 1880, 12101, "M", 1881, 1881, 12102, "M", 1882, 1882, 12103, "M",
      1883, 1883, 12104, "M", 1884, 1884, 12105, "M", 1885, 1885, 12106, "M", 1886, 1886, 12107,
      "M", 1887, 1887, 12108, "M", 1888, 1888, 12109, "M", 1889, 1889, 12110, "M", 1890, 1890,
      12111, "M", 1891, 1891, 12112, "M", 1892, 1892, 12113, "M", 1893, 1893, 12114, "M", 1894,
      1894, 12115, "M", 1895, 1895, 12116, "M", 1896, 1896, 12117, "M", 1897, 1897, 12118, "M",
      1898, 1898, 12119, "M", 1899, 1899, 12120, "M", 1900, 1900, 12121, "M", 1901, 1901, 12122,
      "M", 1902, 1902, 12123, "M", 1903, 1903, 12124, "M", 1904, 1904, 12125, "M", 1905, 1905,
      12126, "M", 1906, 1906, 12127, "M", 1907, 1907, 12128, "M", 1908, 1908, 12129, "M", 1909,
      1909, 12130, "M", 1910, 1910, 12131, "M", 1911, 1911, 12132, "M", 1912, 1912, 12133, "M",
      1913, 1913, 12134, "M", 1914, 1914, 12135, "M", 1915, 1915, 12136, "M", 1916, 1916, 12137,
      "M", 1917, 1917, 12138, "M", 1918, 1918, 12139, "M", 1919, 1919, 12140, "M", 1920, 1920,
      12141, "M", 1921, 1921, 12142, "M", 1922, 1922, 12143, "M", 1923, 1923, 12144, "M", 1924,
      1924, 12145, "M", 1925, 1925, 12146, "M", 1926, 1926, 12147, "M", 1927, 1927, 12148, "M",
      1928, 1928, 12149, "M", 1929, 1929, 12150, "M", 1930, 1930, 12151, "M", 1931, 1931, 12152,
      "M", 1932, 1932, 12153, "M", 1933, 1933, 12154, "M", 1934, 1934, 12155, "M", 1935, 1935,
      12156, "M", 1936, 1936, 12157, "M", 1937, 1937, 12158, "M", 1938, 1938, 12159, "M", 1939,
      1939, 12160, "M", 1940, 1940, 12161, "M", 1941, 1941, 12162, "M", 1942, 1942, 12163, "M",
      1943, 1943, 12164, "M", 1944, 1944, 12165, "M", 1945, 1945, 12166, "M", 1946, 1946, 12167,
      "M", 1947, 1947, 12168, "M", 1948, 1948, 12169, "M", 1949, 1949, 12170, "M", 1950, 1950,
      12171, "M", 1951, 1951, 12172, "M", 1952, 1952, 12173, "M", 1953, 1953, 12174, "M", 1954,
      1954, 12175, "M", 1955, 1955, 12176, "M", 1956, 1956, 12177, "M", 1957, 1957, 12178, "M",
      1958, 1958, 12179, "M", 1959, 1959, 12180, "M", 1960, 1960, 12181, "M", 1961, 1961, 12182,
      "M", 1962, 1962, 12183, "M", 1963, 1963, 12184, "M", 1964, 1964, 12185, "M", 1965, 1965,
      12186, "M", 1966, 1966, 12187, "M", 1967, 1967, 12188, "M", 1968, 1968, 12189, "M", 1969,
      1969, 12190, "M", 1970, 1970, 12191, "M", 1971, 1971, 12192, "M", 1972, 1972, 12193, "M",
      1973, 1973, 12194, "M", 1974, 1974, 12195, "M", 1975, 1975, 12196, "M", 1976, 1976, 12197,
      "M", 1977, 1977, 12198, "M", 1978, 1978, 12199, "M", 1979, 1979, 12200, "M", 1980, 1980,
      12201, "M", 1981, 1981, 12202, "M", 1982, 1982, 12203, "M", 1983, 1983, 12204, "M", 1984,
      1984, 12205, "M", 1985, 1985, 12206, "M", 1986, 1986, 12207, "M", 1987, 1987, 12208, "M",
      1988, 1988, 12209, "M", 1989, 1989, 12210, "M", 1990, 1990, 12211, "M", 1991, 1991, 12212,
      "M", 1992, 1992, 12213, "M", 1993, 1993, 12214, "M", 1994, 1994, 12215, "M", 1995, 1995,
      12216, "M", 1996, 1996, 12217, "M", 1997, 1997, 12218, "M", 1998, 1998, 12219, "M", 1999,
      1999, 12220, "M", 2000, 2000, 12221, "M", 2001, 2001, 12222, "M", 2002, 2002, 12223, "M",
      2003, 2003, 12224, "M", 2004, 2004, 12225, "M", 2005, 2005, 12226, "M", 2006, 2006, 12227,
      "M", 2007, 2007, 12228, "M", 2008, 2008, 12229, "M", 2009, 2009, 12230, "M", 2010, 2010,
      12231, "M", 2011, 2011, 12232, "M", 2012, 2012, 12233, "M", 2013, 2013, 12234, "M", 2014,
      2014, 12235, "M", 2015, 2015, 12236, "M", 2016, 2016, 12237, "M", 2017, 2017, 12238, "M",
      2018, 2018, 12239, "M", 2019, 2019, 12240, "M", 2020, 2020, 12241, "M", 2021, 2021, 12242,
      "M", 2022, 2022, 12243, "M", 2023, 2023, 12244, "M", 2024, 2024, 12245, "M", 2025, 2025,
      12246, "X", 0, 0, 12288, "3", 2026, 2026, 12289, "V", 0, 0, 12290, "M", 2027, 2027, 12291,
      "V", 0, 0, 12342, "M", 2028, 2028, 12343, "V", 0, 0, 12344, "M", 2029, 2029, 12345, "M", 2030,
      2030, 12346, "M", 2031, 2031, 12347, "V", 0, 0, 12352, "X", 0, 0, 12353, "V", 0, 0, 12439,
      "X", 0, 0, 12441, "V", 0, 0, 12443, "3", 2032, 2033, 12444, "3", 2034, 2035, 12445, "V", 0, 0,
      12447, "M", 2036, 2037, 12448, "V", 0, 0, 12543, "M", 2038, 2039, 12544, "X", 0, 0, 12549,
      "V", 0, 0, 12592, "X", 0, 0, 12593, "M", 2040, 2040, 12594, "M", 2041, 2041, 12595, "M", 2042,
      2042, 12596, "M", 2043, 2043, 12597, "M", 2044, 2044, 12598, "M", 2045, 2045, 12599, "M",
      2046, 2046, 12600, "M", 2047, 2047, 12601, "M", 2048, 2048, 12602, "M", 2049, 2049, 12603,
      "M", 2050, 2050, 12604, "M", 2051, 2051, 12605, "M", 2052, 2052, 12606, "M", 2053, 2053,
      12607, "M", 2054, 2054, 12608, "M", 2055, 2055, 12609, "M", 2056, 2056, 12610, "M", 2057,
      2057, 12611, "M", 2058, 2058, 12612, "M", 2059, 2059, 12613, "M", 2060, 2060, 12614, "M",
      2061, 2061, 12615, "M", 2062, 2062, 12616, "M", 2063, 2063, 12617, "M", 2064, 2064, 12618,
      "M", 2065, 2065, 12619, "M", 2066, 2066, 12620, "M", 2067, 2067, 12621, "M", 2068, 2068,
      12622, "M", 2069, 2069, 12623, "M", 2070, 2070, 12624, "M", 2071, 2071, 12625, "M", 2072,
      2072, 12626, "M", 2073, 2073, 12627, "M", 2074, 2074, 12628, "M", 2075, 2075, 12629, "M",
      2076, 2076, 12630, "M", 2077, 2077, 12631, "M", 2078, 2078, 12632, "M", 2079, 2079, 12633,
      "M", 2080, 2080, 12634, "M", 2081, 2081, 12635, "M", 2082, 2082, 12636, "M", 2083, 2083,
      12637, "M", 2084, 2084, 12638, "M", 2085, 2085, 12639, "M", 2086, 2086, 12640, "M", 2087,
      2087, 12641, "M", 2088, 2088, 12642, "M", 2089, 2089, 12643, "M", 2090, 2090, 12644, "X", 0,
      0, 12645, "M", 2091, 2091, 12646, "M", 2092, 2092, 12647, "M", 2093, 2093, 12648, "M", 2094,
      2094, 12649, "M", 2095, 2095, 12650, "M", 2096, 2096, 12651, "M", 2097, 2097, 12652, "M",
      2098, 2098, 12653, "M", 2099, 2099, 12654, "M", 2100, 2100, 12655, "M", 2101, 2101, 12656,
      "M", 2102, 2102, 12657, "M", 2103, 2103, 12658, "M", 2104, 2104, 12659, "M", 2105, 2105,
      12660, "M", 2106, 2106, 12661, "M", 2107, 2107, 12662, "M", 2108, 2108, 12663, "M", 2109,
      2109, 12664, "M", 2110, 2110, 12665, "M", 2111, 2111, 12666, "M", 2112, 2112, 12667, "M",
      2113, 2113, 12668, "M", 2114, 2114, 12669, "M", 2115, 2115, 12670, "M", 2116, 2116, 12671,
      "M", 2117, 2117, 12672, "M", 2118, 2118, 12673, "M", 2119, 2119, 12674, "M", 2120, 2120,
      12675, "M", 2121, 2121, 12676, "M", 2122, 2122, 12677, "M", 2123, 2123, 12678, "M", 2124,
      2124, 12679, "M", 2125, 2125, 12680, "M", 2126, 2126, 12681, "M", 2127, 2127, 12682, "M",
      2128, 2128, 12683, "M", 2129, 2129, 12684, "M", 2130, 2130, 12685, "M", 2131, 2131, 12686,
      "M", 2132, 2132, 12687, "X", 0, 0, 12688, "V", 0, 0, 12690, "M", 2133, 2133, 12691, "M", 2134,
      2134, 12692, "M", 2135, 2135, 12693, "M", 2136, 2136, 12694, "M", 2137, 2137, 12695, "M",
      2138, 2138, 12696, "M", 2139, 2139, 12697, "M", 2140, 2140, 12698, "M", 2141, 2141, 12699,
      "M", 2142, 2142, 12700, "M", 2143, 2143, 12701, "M", 2144, 2144, 12702, "M", 2145, 2145,
      12703, "M", 2146, 2146, 12704, "V", 0, 0, 12772, "X", 0, 0, 12784, "V", 0, 0, 12800, "3",
      2147, 2149, 12801, "3", 2150, 2152, 12802, "3", 2153, 2155, 12803, "3", 2156, 2158, 12804,
      "3", 2159, 2161, 12805, "3", 2162, 2164, 12806, "3", 2165, 2167, 12807, "3", 2168, 2170,
      12808, "3", 2171, 2173, 12809, "3", 2174, 2176, 12810, "3", 2177, 2179, 12811, "3", 2180,
      2182, 12812, "3", 2183, 2185, 12813, "3", 2186, 2188, 12814, "3", 2189, 2191, 12815, "3",
      2192, 2194, 12816, "3", 2195, 2197, 12817, "3", 2198, 2200, 12818, "3", 2201, 2203, 12819,
      "3", 2204, 2206, 12820, "3", 2207, 2209, 12821, "3", 2210, 2212, 12822, "3", 2213, 2215,
      12823, "3", 2216, 2218, 12824, "3", 2219, 2221, 12825, "3", 2222, 2224, 12826, "3", 2225,
      2227, 12827, "3", 2228, 2230, 12828, "3", 2231, 2233, 12829, "3", 2234, 2237, 12830, "3",
      2238, 2241, 12831, "X", 0, 0, 12832, "3", 2242, 2244, 12833, "3", 2245, 2247, 12834, "3",
      2248, 2250, 12835, "3", 2251, 2253, 12836, "3", 2254, 2256, 12837, "3", 2257, 2259, 12838,
      "3", 2260, 2262, 12839, "3", 2263, 2265, 12840, "3", 2266, 2268, 12841, "3", 2269, 2271,
      12842, "3", 2272, 2274, 12843, "3", 2275, 2277, 12844, "3", 2278, 2280, 12845, "3", 2281,
      2283, 12846, "3", 2284, 2286, 12847, "3", 2287, 2289, 12848, "3", 2290, 2292, 12849, "3",
      2293, 2295, 12850, "3", 2296, 2298, 12851, "3", 2299, 2301, 12852, "3", 2302, 2304, 12853,
      "3", 2305, 2307, 12854, "3", 2308, 2310, 12855, "3", 2311, 2313, 12856, "3", 2314, 2316,
      12857, "3", 2317, 2319, 12858, "3", 2320, 2322, 12859, "3", 2323, 2325, 12860, "3", 2326,
      2328, 12861, "3", 2329, 2331, 12862, "3", 2332, 2334, 12863, "3", 2335, 2337, 12864, "3",
      2338, 2340, 12865, "3", 2341, 2343, 12866, "3", 2344, 2346, 12867, "3", 2347, 2349, 12868,
      "M", 2350, 2350, 12869, "M", 2351, 2351, 12870, "M", 2352, 2352, 12871, "M", 2353, 2353,
      12872, "V", 0, 0, 12880, "M", 2354, 2356, 12881, "M", 2357, 2358, 12882, "M", 2359, 2360,
      12883, "M", 2361, 2362, 12884, "M", 2363, 2364, 12885, "M", 2365, 2366, 12886, "M", 2367,
      2368, 12887, "M", 2369, 2370, 12888, "M", 2371, 2372, 12889, "M", 2373, 2374, 12890, "M",
      2375, 2376, 12891, "M", 2377, 2378, 12892, "M", 2379, 2380, 12893, "M", 2381, 2382, 12894,
      "M", 2383, 2384, 12895, "M", 2385, 2386, 12896, "M", 2387, 2387, 12897, "M", 2388, 2388,
      12898, "M", 2389, 2389, 12899, "M", 2390, 2390, 12900, "M", 2391, 2391, 12901, "M", 2392,
      2392, 12902, "M", 2393, 2393, 12903, "M", 2394, 2394, 12904, "M", 2395, 2395, 12905, "M",
      2396, 2396, 12906, "M", 2397, 2397, 12907, "M", 2398, 2398, 12908, "M", 2399, 2399, 12909,
      "M", 2400, 2400, 12910, "M", 2401, 2401, 12911, "M", 2402, 2402, 12912, "M", 2403, 2403,
      12913, "M", 2404, 2404, 12914, "M", 2405, 2405, 12915, "M", 2406, 2406, 12916, "M", 2407,
      2407, 12917, "M", 2408, 2408, 12918, "M", 2409, 2409, 12919, "M", 2410, 2410, 12920, "M",
      2411, 2411, 12921, "M", 2412, 2412, 12922, "M", 2413, 2413, 12923, "M", 2414, 2414, 12924,
      "M", 2415, 2416, 12925, "M", 2417, 2418, 12926, "M", 2419, 2419, 12927, "V", 0, 0, 12928, "M",
      2420, 2420, 12929, "M", 2421, 2421, 12930, "M", 2422, 2422, 12931, "M", 2423, 2423, 12932,
      "M", 2424, 2424, 12933, "M", 2425, 2425, 12934, "M", 2426, 2426, 12935, "M", 2427, 2427,
      12936, "M", 2428, 2428, 12937, "M", 2429, 2429, 12938, "M", 2430, 2430, 12939, "M", 2431,
      2431, 12940, "M", 2432, 2432, 12941, "M", 2433, 2433, 12942, "M", 2434, 2434, 12943, "M",
      2435, 2435, 12944, "M", 2436, 2436, 12945, "M", 2437, 2437, 12946, "M", 2438, 2438, 12947,
      "M", 2439, 2439, 12948, "M", 2440, 2440, 12949, "M", 2441, 2441, 12950, "M", 2442, 2442,
      12951, "M", 2443, 2443, 12952, "M", 2444, 2444, 12953, "M", 2445, 2445, 12954, "M", 2446,
      2446, 12955, "M", 2447, 2447, 12956, "M", 2448, 2448, 12957, "M", 2449, 2449, 12958, "M",
      2450, 2450, 12959, "M", 2451, 2451, 12960, "M", 2452, 2452, 12961, "M", 2453, 2453, 12962,
      "M", 2454, 2454, 12963, "M", 2455, 2455, 12964, "M", 2456, 2456, 12965, "M", 2457, 2457,
      12966, "M", 2458, 2458, 12967, "M", 2459, 2459, 12968, "M", 2460, 2460, 12969, "M", 2461,
      2461, 12970, "M", 2462, 2462, 12971, "M", 2463, 2463, 12972, "M", 2464, 2464, 12973, "M",
      2465, 2465, 12974, "M", 2466, 2466, 12975, "M", 2467, 2467, 12976, "M", 2468, 2468, 12977,
      "M", 2469, 2470, 12978, "M", 2471, 2472, 12979, "M", 2473, 2474, 12980, "M", 2475, 2476,
      12981, "M", 2477, 2478, 12982, "M", 2479, 2480, 12983, "M", 2481, 2482, 12984, "M", 2483,
      2484, 12985, "M", 2485, 2486, 12986, "M", 2487, 2488, 12987, "M", 2489, 2490, 12988, "M",
      2491, 2492, 12989, "M", 2493, 2494, 12990, "M", 2495, 2496, 12991, "M", 2497, 2498, 12992,
      "M", 2499, 2500, 12993, "M", 2501, 2502, 12994, "M", 2503, 2504, 12995, "M", 2505, 2506,
      12996, "M", 2507, 2508, 12997, "M", 2509, 2510, 12998, "M", 2511, 2512, 12999, "M", 2513,
      2514, 13000, "M", 2515, 2516, 13001, "M", 2517, 2519, 13002, "M", 2520, 2522, 13003, "M",
      2523, 2525, 13004, "M", 2526, 2527, 13005, "M", 2528, 2530, 13006, "M", 2531, 2532, 13007,
      "M", 2533, 2535, 13008, "M", 2536, 2536, 13009, "M", 2537, 2537, 13010, "M", 2538, 2538,
      13011, "M", 2539, 2539, 13012, "M", 2540, 2540, 13013, "M", 2541, 2541, 13014, "M", 2542,
      2542, 13015, "M", 2543, 2543, 13016, "M", 2544, 2544, 13017, "M", 2545, 2545, 13018, "M",
      2546, 2546, 13019, "M", 2547, 2547, 13020, "M", 2548, 2548, 13021, "M", 2549, 2549, 13022,
      "M", 2550, 2550, 13023, "M", 2551, 2551, 13024, "M", 2552, 2552, 13025, "M", 2553, 2553,
      13026, "M", 2554, 2554, 13027, "M", 2555, 2555, 13028, "M", 2556, 2556, 13029, "M", 2557,
      2557, 13030, "M", 2558, 2558, 13031, "M", 2559, 2559, 13032, "M", 2560, 2560, 13033, "M",
      2561, 2561, 13034, "M", 2562, 2562, 13035, "M", 2563, 2563, 13036, "M", 2564, 2564, 13037,
      "M", 2565, 2565, 13038, "M", 2566, 2566, 13039, "M", 2567, 2567, 13040, "M", 2568, 2568,
      13041, "M", 2569, 2569, 13042, "M", 2570, 2570, 13043, "M", 2571, 2571, 13044, "M", 2572,
      2572, 13045, "M", 2573, 2573, 13046, "M", 2574, 2574, 13047, "M", 2575, 2575, 13048, "M",
      2576, 2576, 13049, "M", 2577, 2577, 13050, "M", 2578, 2578, 13051, "M", 2579, 2579, 13052,
      "M", 2580, 2580, 13053, "M", 2581, 2581, 13054, "M", 2582, 2582, 13055, "M", 2583, 2584,
      13056, "M", 2585, 2588, 13057, "M", 2589, 2592, 13058, "M", 2593, 2596, 13059, "M", 2597,
      2599, 13060, "M", 2600, 2603, 13061, "M", 2604, 2606, 13062, "M", 2607, 2609, 13063, "M",
      2610, 2614, 13064, "M", 2615, 2618, 13065, "M", 2619, 2621, 13066, "M", 2622, 2624, 13067,
      "M", 2625, 2627, 13068, "M", 2628, 2631, 13069, "M", 2632, 2635, 13070, "M", 2636, 2638,
      13071, "M", 2639, 2641, 13072, "M", 2642, 2643, 13073, "M", 2644, 2646, 13074, "M", 2647,
      2650, 13075, "M", 2651, 2654, 13076, "M", 2655, 2656, 13077, "M", 2657, 2661, 13078, "M",
      2662, 2667, 13079, "M", 2668, 2672, 13080, "M", 2673, 2675, 13081, "M", 2676, 2680, 13082,
      "M", 2681, 2685, 13083, "M", 2686, 2689, 13084, "M", 2690, 2692, 13085, "M", 2693, 2695,
      13086, "M", 2696, 2698, 13087, "M", 2699, 2702, 13088, "M", 2703, 2707, 13089, "M", 2708,
      2711, 13090, "M", 2712, 2714, 13091, "M", 2715, 2717, 13092, "M", 2718, 2720, 13093, "M",
      2721, 2722, 13094, "M", 2723, 2724, 13095, "M", 2725, 2726, 13096, "M", 2727, 2728, 13097,
      "M", 2729, 2731, 13098, "M", 2732, 2734, 13099, "M", 2735, 2739, 13100, "M", 2740, 2742,
      13101, "M", 2743, 2746, 13102, "M", 2747, 2751, 13103, "M", 2752, 2754, 13104, "M", 2755,
      2756, 13105, "M", 2757, 2758, 13106, "M", 2759, 2763, 13107, "M", 2764, 2767, 13108, "M",
      2768, 2772, 13109, "M", 2773, 2775, 13110, "M", 2776, 2780, 13111, "M", 2781, 2782, 13112,
      "M", 2783, 2785, 13113, "M", 2786, 2788, 13114, "M", 2789, 2791, 13115, "M", 2792, 2794,
      13116, "M", 2795, 2797, 13117, "M", 2798, 2801, 13118, "M", 2802, 2804, 13119, "M", 2805,
      2806, 13120, "M", 2807, 2809, 13121, "M", 2810, 2812, 13122, "M", 2813, 2815, 13123, "M",
      2816, 2819, 13124, "M", 2820, 2822, 13125, "M", 2823, 2825, 13126, "M", 2826, 2828, 13127,
      "M", 2829, 2833, 13128, "M", 2834, 2837, 13129, "M", 2838, 2839, 13130, "M", 2840, 2844,
      13131, "M", 2845, 2846, 13132, "M", 2847, 2850, 13133, "M", 2851, 2854, 13134, "M", 2855,
      2857, 13135, "M", 2858, 2860, 13136, "M", 2861, 2863, 13137, "M", 2864, 2867, 13138, "M",
      2868, 2869, 13139, "M", 2870, 2872, 13140, "M", 2873, 2876, 13141, "M", 2877, 2878, 13142,
      "M", 2879, 2883, 13143, "M", 2884, 2886, 13144, "M", 2887, 2888, 13145, "M", 2889, 2890,
      13146, "M", 2891, 2892, 13147, "M", 2893, 2894, 13148, "M", 2895, 2896, 13149, "M", 2897,
      2898, 13150, "M", 2899, 2900, 13151, "M", 2901, 2902, 13152, "M", 2903, 2904, 13153, "M",
      2905, 2906, 13154, "M", 2907, 2909, 13155, "M", 2910, 2912, 13156, "M", 2913, 2915, 13157,
      "M", 2916, 2918, 13158, "M", 2919, 2921, 13159, "M", 2922, 2924, 13160, "M", 2925, 2927,
      13161, "M", 2928, 2930, 13162, "M", 2931, 2933, 13163, "M", 2934, 2936, 13164, "M", 2937,
      2939, 13165, "M", 2940, 2942, 13166, "M", 2943, 2945, 13167, "M", 2946, 2948, 13168, "M",
      2949, 2951, 13169, "M", 2952, 2954, 13170, "M", 2955, 2956, 13171, "M", 2957, 2958, 13172,
      "M", 2959, 2961, 13173, "M", 2962, 2963, 13174, "M", 2964, 2965, 13175, "M", 2966, 2967,
      13176, "M", 2968, 2970, 13177, "M", 2971, 2973, 13178, "M", 2974, 2975, 13179, "M", 2976,
      2977, 13180, "M", 2978, 2979, 13181, "M", 2980, 2981, 13182, "M", 2982, 2983, 13183, "M",
      2984, 2987, 13184, "M", 2988, 2989, 13185, "M", 2990, 2991, 13186, "M", 2992, 2993, 13187,
      "M", 2994, 2995, 13188, "M", 2996, 2997, 13189, "M", 2998, 2999, 13190, "M", 3000, 3001,
      13191, "M", 3002, 3003, 13192, "M", 3004, 3006, 13193, "M", 3007, 3010, 13194, "M", 3011,
      3012, 13195, "M", 3013, 3014, 13196, "M", 3015, 3016, 13197, "M", 3017, 3018, 13198, "M",
      3019, 3020, 13199, "M", 3021, 3022, 13200, "M", 3023, 3024, 13201, "M", 3025, 3027, 13202,
      "M", 3028, 3030, 13203, "M", 3031, 3033, 13204, "M", 3034, 3036, 13205, "M", 3037, 3038,
      13206, "M", 3039, 3040, 13207, "M", 3041, 3042, 13208, "M", 3043, 3044, 13209, "M", 3045,
      3046, 13210, "M", 3047, 3048, 13211, "M", 3049, 3050, 13212, "M", 3051, 3052, 13213, "M",
      3053, 3054, 13214, "M", 3055, 3056, 13215, "M", 3057, 3059, 13216, "M", 3060, 3062, 13217,
      "M", 3063, 3064, 13218, "M", 3065, 3067, 13219, "M", 3068, 3070, 13220, "M", 3071, 3073,
      13221, "M", 3074, 3075, 13222, "M", 3076, 3078, 13223, "M", 3079, 3081, 13224, "M", 3082,
      3085, 13225, "M", 3086, 3087, 13226, "M", 3088, 3090, 13227, "M", 3091, 3093, 13228, "M",
      3094, 3096, 13229, "M", 3097, 3099, 13230, "M", 3100, 3104, 13231, "M", 3105, 3110, 13232,
      "M", 3111, 3112, 13233, "M", 3113, 3114, 13234, "M", 3115, 3116, 13235, "M", 3117, 3118,
      13236, "M", 3119, 3120, 13237, "M", 3121, 3122, 13238, "M", 3123, 3124, 13239, "M", 3125,
      3126, 13240, "M", 3127, 3128, 13241, "M", 3129, 3130, 13242, "M", 3131, 3132, 13243, "M",
      3133, 3134, 13244, "M", 3135, 3136, 13245, "M", 3137, 3138, 13246, "M", 3139, 3140, 13247,
      "M", 3141, 3142, 13248, "M", 3143, 3144, 13249, "M", 3145, 3146, 13250, "X", 0, 0, 13251, "M",
      3147, 3148, 13252, "M", 3149, 3150, 13253, "M", 3151, 3152, 13254, "M", 3153, 3156, 13255,
      "X", 0, 0, 13256, "M", 3157, 3158, 13257, "M", 3159, 3160, 13258, "M", 3161, 3162, 13259, "M",
      3163, 3164, 13260, "M", 3165, 3166, 13261, "M", 3167, 3168, 13262, "M", 3169, 3170, 13263,
      "M", 3171, 3172, 13264, "M", 3173, 3174, 13265, "M", 3175, 3176, 13266, "M", 3177, 3179,
      13267, "M", 3180, 3181, 13268, "M", 3182, 3183, 13269, "M", 3184, 3186, 13270, "M", 3187,
      3189, 13271, "M", 3190, 3191, 13272, "X", 0, 0, 13273, "M", 3192, 3194, 13274, "M", 3195,
      3196, 13275, "M", 3197, 3198, 13276, "M", 3199, 3200, 13277, "M", 3201, 3202, 13278, "M",
      3203, 3205, 13279, "M", 3206, 3208, 13280, "M", 3209, 3210, 13281, "M", 3211, 3212, 13282,
      "M", 3213, 3214, 13283, "M", 3215, 3216, 13284, "M", 3217, 3218, 13285, "M", 3219, 3220,
      13286, "M", 3221, 3222, 13287, "M", 3223, 3224, 13288, "M", 3225, 3226, 13289, "M", 3227,
      3229, 13290, "M", 3230, 3232, 13291, "M", 3233, 3235, 13292, "M", 3236, 3238, 13293, "M",
      3239, 3241, 13294, "M", 3242, 3244, 13295, "M", 3245, 3247, 13296, "M", 3248, 3250, 13297,
      "M", 3251, 3253, 13298, "M", 3254, 3256, 13299, "M", 3257, 3259, 13300, "M", 3260, 3262,
      13301, "M", 3263, 3265, 13302, "M", 3266, 3268, 13303, "M", 3269, 3271, 13304, "M", 3272,
      3274, 13305, "M", 3275, 3277, 13306, "M", 3278, 3280, 13307, "M", 3281, 3283, 13308, "M",
      3284, 3286, 13309, "M", 3287, 3289, 13310, "M", 3290, 3292, 13311, "M", 3293, 3295, 13312,
      "V", 0, 0, 42125, "X", 0, 0, 42128, "V", 0, 0, 42183, "X", 0, 0, 42192, "V", 0, 0, 42540, "X",
      0, 0, 42560, "M", 3296, 3296, 42561, "V", 0, 0, 42562, "M", 3297, 3297, 42563, "V", 0, 0,
      42564, "M", 3298, 3298, 42565, "V", 0, 0, 42566, "M", 3299, 3299, 42567, "V", 0, 0, 42568,
      "M", 3300, 3300, 42569, "V", 0, 0, 42570, "M", 3301, 3301, 42571, "V", 0, 0, 42572, "M", 3302,
      3302, 42573, "V", 0, 0, 42574, "M", 3303, 3303, 42575, "V", 0, 0, 42576, "M", 3304, 3304,
      42577, "V", 0, 0, 42578, "M", 3305, 3305, 42579, "V", 0, 0, 42580, "M", 3306, 3306, 42581,
      "V", 0, 0, 42582, "M", 3307, 3307, 42583, "V", 0, 0, 42584, "M", 3308, 3308, 42585, "V", 0, 0,
      42586, "M", 3309, 3309, 42587, "V", 0, 0, 42588, "M", 3310, 3310, 42589, "V", 0, 0, 42590,
      "M", 3311, 3311, 42591, "V", 0, 0, 42592, "M", 3312, 3312, 42593, "V", 0, 0, 42594, "M", 3313,
      3313, 42595, "V", 0, 0, 42596, "M", 3314, 3314, 42597, "V", 0, 0, 42598, "M", 3315, 3315,
      42599, "V", 0, 0, 42600, "M", 3316, 3316, 42601, "V", 0, 0, 42602, "M", 3317, 3317, 42603,
      "V", 0, 0, 42604, "M", 3318, 3318, 42605, "V", 0, 0, 42624, "M", 3319, 3319, 42625, "V", 0, 0,
      42626, "M", 3320, 3320, 42627, "V", 0, 0, 42628, "M", 3321, 3321, 42629, "V", 0, 0, 42630,
      "M", 3322, 3322, 42631, "V", 0, 0, 42632, "M", 3323, 3323, 42633, "V", 0, 0, 42634, "M", 3324,
      3324, 42635, "V", 0, 0, 42636, "M", 3325, 3325, 42637, "V", 0, 0, 42638, "M", 3326, 3326,
      42639, "V", 0, 0, 42640, "M", 3327, 3327, 42641, "V", 0, 0, 42642, "M", 3328, 3328, 42643,
      "V", 0, 0, 42644, "M", 3329, 3329, 42645, "V", 0, 0, 42646, "M", 3330, 3330, 42647, "V", 0, 0,
      42648, "M", 3331, 3331, 42649, "V", 0, 0, 42650, "M", 3332, 3332, 42651, "V", 0, 0, 42652,
      "M", 3333, 3333, 42653, "M", 3334, 3334, 42654, "V", 0, 0, 42744, "X", 0, 0, 42752, "V", 0, 0,
      42786, "M", 3335, 3335, 42787, "V", 0, 0, 42788, "M", 3336, 3336, 42789, "V", 0, 0, 42790,
      "M", 3337, 3337, 42791, "V", 0, 0, 42792, "M", 3338, 3338, 42793, "V", 0, 0, 42794, "M", 3339,
      3339, 42795, "V", 0, 0, 42796, "M", 3340, 3340, 42797, "V", 0, 0, 42798, "M", 3341, 3341,
      42799, "V", 0, 0, 42802, "M", 3342, 3342, 42803, "V", 0, 0, 42804, "M", 3343, 3343, 42805,
      "V", 0, 0, 42806, "M", 3344, 3344, 42807, "V", 0, 0, 42808, "M", 3345, 3345, 42809, "V", 0, 0,
      42810, "M", 3346, 3346, 42811, "V", 0, 0, 42812, "M", 3347, 3347, 42813, "V", 0, 0, 42814,
      "M", 3348, 3348, 42815, "V", 0, 0, 42816, "M", 3349, 3349, 42817, "V", 0, 0, 42818, "M", 3350,
      3350, 42819, "V", 0, 0, 42820, "M", 3351, 3351, 42821, "V", 0, 0, 42822, "M", 3352, 3352,
      42823, "V", 0, 0, 42824, "M", 3353, 3353, 42825, "V", 0, 0, 42826, "M", 3354, 3354, 42827,
      "V", 0, 0, 42828, "M", 3355, 3355, 42829, "V", 0, 0, 42830, "M", 3356, 3356, 42831, "V", 0, 0,
      42832, "M", 3357, 3357, 42833, "V", 0, 0, 42834, "M", 3358, 3358, 42835, "V", 0, 0, 42836,
      "M", 3359, 3359, 42837, "V", 0, 0, 42838, "M", 3360, 3360, 42839, "V", 0, 0, 42840, "M", 3361,
      3361, 42841, "V", 0, 0, 42842, "M", 3362, 3362, 42843, "V", 0, 0, 42844, "M", 3363, 3363,
      42845, "V", 0, 0, 42846, "M", 3364, 3364, 42847, "V", 0, 0, 42848, "M", 3365, 3365, 42849,
      "V", 0, 0, 42850, "M", 3366, 3366, 42851, "V", 0, 0, 42852, "M", 3367, 3367, 42853, "V", 0, 0,
      42854, "M", 3368, 3368, 42855, "V", 0, 0, 42856, "M", 3369, 3369, 42857, "V", 0, 0, 42858,
      "M", 3370, 3370, 42859, "V", 0, 0, 42860, "M", 3371, 3371, 42861, "V", 0, 0, 42862, "M", 3372,
      3372, 42863, "V", 0, 0, 42864, "M", 3373, 3373, 42865, "V", 0, 0, 42873, "M", 3374, 3374,
      42874, "V", 0, 0, 42875, "M", 3375, 3375, 42876, "V", 0, 0, 42877, "M", 3376, 3376, 42878,
      "M", 3377, 3377, 42879, "V", 0, 0, 42880, "M", 3378, 3378, 42881, "V", 0, 0, 42882, "M", 3379,
      3379, 42883, "V", 0, 0, 42884, "M", 3380, 3380, 42885, "V", 0, 0, 42886, "M", 3381, 3381,
      42887, "V", 0, 0, 42891, "M", 3382, 3382, 42892, "V", 0, 0, 42893, "M", 3383, 3383, 42894,
      "V", 0, 0, 42896, "M", 3384, 3384, 42897, "V", 0, 0, 42898, "M", 3385, 3385, 42899, "V", 0, 0,
      42902, "M", 3386, 3386, 42903, "V", 0, 0, 42904, "M", 3387, 3387, 42905, "V", 0, 0, 42906,
      "M", 3388, 3388, 42907, "V", 0, 0, 42908, "M", 3389, 3389, 42909, "V", 0, 0, 42910, "M", 3390,
      3390, 42911, "V", 0, 0, 42912, "M", 3391, 3391, 42913, "V", 0, 0, 42914, "M", 3392, 3392,
      42915, "V", 0, 0, 42916, "M", 3393, 3393, 42917, "V", 0, 0, 42918, "M", 3394, 3394, 42919,
      "V", 0, 0, 42920, "M", 3395, 3395, 42921, "V", 0, 0, 42922, "M", 3396, 3396, 42923, "M", 3397,
      3397, 42924, "M", 3398, 3398, 42925, "M", 3399, 3399, 42926, "M", 3400, 3400, 42927, "V", 0,
      0, 42928, "M", 3401, 3401, 42929, "M", 3402, 3402, 42930, "M", 3403, 3403, 42931, "M", 3404,
      3404, 42932, "M", 3405, 3405, 42933, "V", 0, 0, 42934, "M", 3406, 3406, 42935, "V", 0, 0,
      42936, "M", 3407, 3407, 42937, "V", 0, 0, 42938, "M", 3408, 3408, 42939, "V", 0, 0, 42940,
      "M", 3409, 3409, 42941, "V", 0, 0, 42942, "M", 3410, 3410, 42943, "V", 0, 0, 42944, "M", 3411,
      3411, 42945, "V", 0, 0, 42946, "M", 3412, 3412, 42947, "V", 0, 0, 42948, "M", 3413, 3413,
      42949, "M", 3414, 3414, 42950, "M", 3415, 3415, 42951, "M", 3416, 3416, 42952, "V", 0, 0,
      42953, "M", 3417, 3417, 42954, "V", 0, 0, 42955, "X", 0, 0, 42960, "M", 3418, 3418, 42961,
      "V", 0, 0, 42962, "X", 0, 0, 42963, "V", 0, 0, 42964, "X", 0, 0, 42965, "V", 0, 0, 42966, "M",
      3419, 3419, 42967, "V", 0, 0, 42968, "M", 3420, 3420, 42969, "V", 0, 0, 42970, "X", 0, 0,
      42994, "M", 3421, 3421, 42995, "M", 3422, 3422, 42996, "M", 3423, 3423, 42997, "M", 3424,
      3424, 42998, "V", 0, 0, 43000, "M", 3425, 3425, 43001, "M", 3426, 3426, 43002, "V", 0, 0,
      43053, "X", 0, 0, 43056, "V", 0, 0, 43066, "X", 0, 0, 43072, "V", 0, 0, 43128, "X", 0, 0,
      43136, "V", 0, 0, 43206, "X", 0, 0, 43214, "V", 0, 0, 43226, "X", 0, 0, 43232, "V", 0, 0,
      43348, "X", 0, 0, 43359, "V", 0, 0, 43389, "X", 0, 0, 43392, "V", 0, 0, 43470, "X", 0, 0,
      43471, "V", 0, 0, 43482, "X", 0, 0, 43486, "V", 0, 0, 43519, "X", 0, 0, 43520, "V", 0, 0,
      43575, "X", 0, 0, 43584, "V", 0, 0, 43598, "X", 0, 0, 43600, "V", 0, 0, 43610, "X", 0, 0,
      43612, "V", 0, 0, 43715, "X", 0, 0, 43739, "V", 0, 0, 43767, "X", 0, 0, 43777, "V", 0, 0,
      43783, "X", 0, 0, 43785, "V", 0, 0, 43791, "X", 0, 0, 43793, "V", 0, 0, 43799, "X", 0, 0,
      43808, "V", 0, 0, 43815, "X", 0, 0, 43816, "V", 0, 0, 43823, "X", 0, 0, 43824, "V", 0, 0,
      43868, "M", 3427, 3427, 43869, "M", 3428, 3428, 43870, "M", 3429, 3429, 43871, "M", 3430,
      3430, 43872, "V", 0, 0, 43881, "M", 3431, 3431, 43882, "V", 0, 0, 43884, "X", 0, 0, 43888,
      "M", 3432, 3432, 43889, "M", 3433, 3433, 43890, "M", 3434, 3434, 43891, "M", 3435, 3435,
      43892, "M", 3436, 3436, 43893, "M", 3437, 3437, 43894, "M", 3438, 3438, 43895, "M", 3439,
      3439, 43896, "M", 3440, 3440, 43897, "M", 3441, 3441, 43898, "M", 3442, 3442, 43899, "M",
      3443, 3443, 43900, "M", 3444, 3444, 43901, "M", 3445, 3445, 43902, "M", 3446, 3446, 43903,
      "M", 3447, 3447, 43904, "M", 3448, 3448, 43905, "M", 3449, 3449, 43906, "M", 3450, 3450,
      43907, "M", 3451, 3451, 43908, "M", 3452, 3452, 43909, "M", 3453, 3453, 43910, "M", 3454,
      3454, 43911, "M", 3455, 3455, 43912, "M", 3456, 3456, 43913, "M", 3457, 3457, 43914, "M",
      3458, 3458, 43915, "M", 3459, 3459, 43916, "M", 3460, 3460, 43917, "M", 3461, 3461, 43918,
      "M", 3462, 3462, 43919, "M", 3463, 3463, 43920, "M", 3464, 3464, 43921, "M", 3465, 3465,
      43922, "M", 3466, 3466, 43923, "M", 3467, 3467, 43924, "M", 3468, 3468, 43925, "M", 3469,
      3469, 43926, "M", 3470, 3470, 43927, "M", 3471, 3471, 43928, "M", 3472, 3472, 43929, "M",
      3473, 3473, 43930, "M", 3474, 3474, 43931, "M", 3475, 3475, 43932, "M", 3476, 3476, 43933,
      "M", 3477, 3477, 43934, "M", 3478, 3478, 43935, "M", 3479, 3479, 43936, "M", 3480, 3480,
      43937, "M", 3481, 3481, 43938, "M", 3482, 3482, 43939, "M", 3483, 3483, 43940, "M", 3484,
      3484, 43941, "M", 3485, 3485, 43942, "M", 3486, 3486, 43943, "M", 3487, 3487, 43944, "M",
      3488, 3488, 43945, "M", 3489, 3489, 43946, "M", 3490, 3490, 43947, "M", 3491, 3491, 43948,
      "M", 3492, 3492, 43949, "M", 3493, 3493, 43950, "M", 3494, 3494, 43951, "M", 3495, 3495,
      43952, "M", 3496, 3496, 43953, "M", 3497, 3497, 43954, "M", 3498, 3498, 43955, "M", 3499,
      3499, 43956, "M", 3500, 3500, 43957, "M", 3501, 3501, 43958, "M", 3502, 3502, 43959, "M",
      3503, 3503, 43960, "M", 3504, 3504, 43961, "M", 3505, 3505, 43962, "M", 3506, 3506, 43963,
      "M", 3507, 3507, 43964, "M", 3508, 3508, 43965, "M", 3509, 3509, 43966, "M", 3510, 3510,
      43967, "M", 3511, 3511, 43968, "V", 0, 0, 44014, "X", 0, 0, 44016, "V", 0, 0, 44026, "X", 0,
      0, 44032, "V", 0, 0, 55204, "X", 0, 0, 55216, "V", 0, 0, 55239, "X", 0, 0, 55243, "V", 0, 0,
      55292, "X", 0, 0, 63744, "M", 3512, 3512, 63745, "M", 3513, 3513, 63746, "M", 3514, 3514,
      63747, "M", 3515, 3515, 63748, "M", 3516, 3516, 63749, "M", 3517, 3517, 63750, "M", 3518,
      3518, 63751, "M", 3519, 3519, 63753, "M", 3520, 3520, 63754, "M", 3521, 3521, 63755, "M",
      3522, 3522, 63756, "M", 3523, 3523, 63757, "M", 3524, 3524, 63758, "M", 3525, 3525, 63759,
      "M", 3526, 3526, 63760, "M", 3527, 3527, 63761, "M", 3528, 3528, 63762, "M", 3529, 3529,
      63763, "M", 3530, 3530, 63764, "M", 3531, 3531, 63765, "M", 3532, 3532, 63766, "M", 3533,
      3533, 63767, "M", 3534, 3534, 63768, "M", 3535, 3535, 63769, "M", 3536, 3536, 63770, "M",
      3537, 3537, 63771, "M", 3538, 3538, 63772, "M", 3539, 3539, 63773, "M", 3540, 3540, 63774,
      "M", 3541, 3541, 63775, "M", 3542, 3542, 63776, "M", 3543, 3543, 63777, "M", 3544, 3544,
      63778, "M", 3545, 3545, 63779, "M", 3546, 3546, 63780, "M", 3547, 3547, 63781, "M", 3548,
      3548, 63782, "M", 3549, 3549, 63783, "M", 3550, 3550, 63784, "M", 3551, 3551, 63785, "M",
      3552, 3552, 63786, "M", 3553, 3553, 63787, "M", 3554, 3554, 63788, "M", 3555, 3555, 63789,
      "M", 3556, 3556, 63790, "M", 3557, 3557, 63791, "M", 3558, 3558, 63792, "M", 3559, 3559,
      63793, "M", 3560, 3560, 63794, "M", 3561, 3561, 63795, "M", 3562, 3562, 63796, "M", 3563,
      3563, 63797, "M", 3564, 3564, 63798, "M", 3565, 3565, 63799, "M", 3566, 3566, 63800, "M",
      3567, 3567, 63801, "M", 3568, 3568, 63802, "M", 3569, 3569, 63803, "M", 3570, 3570, 63804,
      "M", 3571, 3571, 63805, "M", 3572, 3572, 63806, "M", 3573, 3573, 63807, "M", 3574, 3574,
      63808, "M", 3575, 3575, 63809, "M", 3576, 3576, 63810, "M", 3577, 3577, 63811, "M", 3578,
      3578, 63812, "M", 3579, 3579, 63813, "M", 3580, 3580, 63814, "M", 3581, 3581, 63815, "M",
      3582, 3582, 63816, "M", 3583, 3583, 63817, "M", 3584, 3584, 63818, "M", 3585, 3585, 63819,
      "M", 3586, 3586, 63820, "M", 3587, 3587, 63821, "M", 3588, 3588, 63822, "M", 3589, 3589,
      63823, "M", 3590, 3590, 63824, "M", 3591, 3591, 63825, "M", 3592, 3592, 63826, "M", 3593,
      3593, 63827, "M", 3594, 3594, 63828, "M", 3595, 3595, 63829, "M", 3596, 3596, 63830, "M",
      3597, 3597, 63831, "M", 3598, 3598, 63832, "M", 3599, 3599, 63833, "M", 3600, 3600, 63834,
      "M", 3601, 3601, 63835, "M", 3602, 3602, 63836, "M", 3603, 3603, 63837, "M", 3604, 3604,
      63838, "M", 3605, 3605, 63839, "M", 3606, 3606, 63840, "M", 3607, 3607, 63841, "M", 3608,
      3608, 63842, "M", 3609, 3609, 63843, "M", 3610, 3610, 63844, "M", 3611, 3611, 63845, "M",
      3612, 3612, 63846, "M", 3613, 3613, 63847, "M", 3614, 3614, 63848, "M", 3615, 3615, 63849,
      "M", 3616, 3616, 63850, "M", 3617, 3617, 63851, "M", 3618, 3618, 63852, "M", 3619, 3619,
      63853, "M", 3620, 3620, 63854, "M", 3621, 3621, 63855, "M", 3622, 3622, 63856, "M", 3623,
      3623, 63857, "M", 3624, 3624, 63858, "M", 3625, 3625, 63859, "M", 3626, 3626, 63860, "M",
      3627, 3627, 63861, "M", 3628, 3628, 63862, "M", 3629, 3629, 63863, "M", 3630, 3630, 63864,
      "M", 3631, 3631, 63865, "M", 3632, 3632, 63866, "M", 3633, 3633, 63867, "M", 3634, 3634,
      63868, "M", 3635, 3635, 63869, "M", 3636, 3636, 63870, "M", 3637, 3637, 63871, "M", 3638,
      3638, 63872, "M", 3639, 3639, 63873, "M", 3640, 3640, 63874, "M", 3641, 3641, 63875, "M",
      3642, 3642, 63876, "M", 3643, 3643, 63877, "M", 3644, 3644, 63878, "M", 3645, 3645, 63879,
      "M", 3646, 3646, 63880, "M", 3647, 3647, 63881, "M", 3648, 3648, 63882, "M", 3649, 3649,
      63883, "M", 3650, 3650, 63884, "M", 3651, 3651, 63885, "M", 3652, 3652, 63886, "M", 3653,
      3653, 63887, "M", 3654, 3654, 63888, "M", 3655, 3655, 63889, "M", 3656, 3656, 63890, "M",
      3657, 3657, 63891, "M", 3658, 3658, 63892, "M", 3659, 3659, 63893, "M", 3660, 3660, 63894,
      "M", 3661, 3661, 63895, "M", 3662, 3662, 63896, "M", 3663, 3663, 63897, "M", 3664, 3664,
      63898, "M", 3665, 3665, 63899, "M", 3666, 3666, 63900, "M", 3667, 3667, 63901, "M", 3668,
      3668, 63902, "M", 3669, 3669, 63903, "M", 3670, 3670, 63904, "M", 3671, 3671, 63905, "M",
      3672, 3672, 63906, "M", 3673, 3673, 63907, "M", 3674, 3674, 63908, "M", 3675, 3675, 63909,
      "M", 3676, 3676, 63910, "M", 3677, 3677, 63911, "M", 3678, 3678, 63912, "M", 3679, 3679,
      63913, "M", 3680, 3680, 63914, "M", 3681, 3681, 63915, "M", 3682, 3682, 63916, "M", 3683,
      3683, 63917, "M", 3684, 3684, 63918, "M", 3685, 3685, 63919, "M", 3686, 3686, 63920, "M",
      3687, 3687, 63921, "M", 3688, 3688, 63922, "M", 3689, 3689, 63923, "M", 3690, 3690, 63924,
      "M", 3691, 3691, 63925, "M", 3692, 3692, 63926, "M", 3693, 3693, 63927, "M", 3694, 3694,
      63928, "M", 3695, 3695, 63929, "M", 3696, 3696, 63930, "M", 3697, 3697, 63931, "M", 3698,
      3698, 63932, "M", 3699, 3699, 63933, "M", 3700, 3700, 63934, "M", 3701, 3701, 63935, "M",
      3702, 3702, 63936, "M", 3703, 3703, 63937, "M", 3704, 3704, 63938, "M", 3705, 3705, 63939,
      "M", 3706, 3706, 63940, "M", 3707, 3707, 63941, "M", 3708, 3708, 63942, "M", 3709, 3709,
      63943, "M", 3710, 3710, 63944, "M", 3711, 3711, 63945, "M", 3712, 3712, 63946, "M", 3713,
      3713, 63947, "M", 3714, 3714, 63948, "M", 3715, 3715, 63949, "M", 3716, 3716, 63950, "M",
      3717, 3717, 63951, "M", 3718, 3718, 63952, "M", 3719, 3719, 63953, "M", 3720, 3720, 63954,
      "M", 3721, 3721, 63955, "M", 3722, 3722, 63956, "M", 3723, 3723, 63957, "M", 3724, 3724,
      63958, "M", 3725, 3725, 63959, "M", 3726, 3726, 63960, "M", 3727, 3727, 63961, "M", 3728,
      3728, 63962, "M", 3729, 3729, 63963, "M", 3730, 3730, 63964, "M", 3731, 3731, 63965, "M",
      3732, 3732, 63966, "M", 3733, 3733, 63967, "M", 3734, 3734, 63968, "M", 3735, 3735, 63969,
      "M", 3736, 3736, 63970, "M", 3737, 3737, 63971, "M", 3738, 3738, 63972, "M", 3739, 3739,
      63973, "M", 3740, 3740, 63974, "M", 3741, 3741, 63975, "M", 3742, 3742, 63976, "M", 3743,
      3743, 63977, "M", 3744, 3744, 63978, "M", 3745, 3745, 63979, "M", 3746, 3746, 63980, "M",
      3747, 3747, 63981, "M", 3748, 3748, 63982, "M", 3749, 3749, 63983, "M", 3750, 3750, 63984,
      "M", 3751, 3751, 63985, "M", 3752, 3752, 63986, "M", 3753, 3753, 63987, "M", 3754, 3754,
      63988, "M", 3755, 3755, 63989, "M", 3756, 3756, 63990, "M", 3757, 3757, 63991, "M", 3758,
      3758, 63992, "M", 3759, 3759, 63993, "M", 3760, 3760, 63994, "M", 3761, 3761, 63995, "M",
      3762, 3762, 63996, "M", 3763, 3763, 63997, "M", 3764, 3764, 63998, "M", 3765, 3765, 63999,
      "M", 3766, 3766, 64000, "M", 3767, 3767, 64001, "M", 3768, 3768, 64002, "M", 3769, 3769,
      64003, "M", 3770, 3770, 64004, "M", 3771, 3771, 64005, "M", 3772, 3772, 64006, "M", 3773,
      3773, 64007, "M", 3774, 3774, 64008, "M", 3775, 3775, 64009, "M", 3776, 3776, 64010, "M",
      3777, 3777, 64011, "M", 3778, 3778, 64012, "M", 3779, 3779, 64013, "M", 3780, 3780, 64014,
      "V", 0, 0, 64016, "M", 3781, 3781, 64017, "V", 0, 0, 64018, "M", 3782, 3782, 64019, "V", 0, 0,
      64021, "M", 3783, 3783, 64022, "M", 3784, 3784, 64023, "M", 3785, 3785, 64024, "M", 3786,
      3786, 64025, "M", 3787, 3787, 64026, "M", 3788, 3788, 64027, "M", 3789, 3789, 64028, "M",
      3790, 3790, 64029, "M", 3791, 3791, 64030, "M", 3792, 3792, 64031, "V", 0, 0, 64032, "M",
      3793, 3793, 64033, "V", 0, 0, 64034, "M", 3794, 3794, 64035, "V", 0, 0, 64037, "M", 3795,
      3795, 64038, "M", 3796, 3796, 64039, "V", 0, 0, 64042, "M", 3797, 3797, 64043, "M", 3798,
      3798, 64044, "M", 3799, 3799, 64045, "M", 3800, 3800, 64046, "M", 3801, 3801, 64047, "M",
      3802, 3802, 64048, "M", 3803, 3803, 64049, "M", 3804, 3804, 64050, "M", 3805, 3805, 64051,
      "M", 3806, 3806, 64052, "M", 3807, 3807, 64053, "M", 3808, 3808, 64054, "M", 3809, 3809,
      64055, "M", 3810, 3810, 64056, "M", 3811, 3811, 64057, "M", 3812, 3812, 64058, "M", 3813,
      3813, 64059, "M", 3814, 3814, 64060, "M", 3815, 3815, 64061, "M", 3816, 3816, 64062, "M",
      3817, 3817, 64063, "M", 3818, 3818, 64064, "M", 3819, 3819, 64065, "M", 3820, 3820, 64066,
      "M", 3821, 3821, 64067, "M", 3822, 3822, 64068, "M", 3823, 3823, 64069, "M", 3824, 3824,
      64070, "M", 3825, 3825, 64071, "M", 3826, 3826, 64072, "M", 3827, 3827, 64073, "M", 3828,
      3828, 64074, "M", 3829, 3829, 64075, "M", 3830, 3830, 64076, "M", 3831, 3831, 64077, "M",
      3832, 3832, 64078, "M", 3833, 3833, 64079, "M", 3834, 3834, 64080, "M", 3835, 3835, 64081,
      "M", 3836, 3836, 64082, "M", 3837, 3837, 64083, "M", 3838, 3838, 64084, "M", 3839, 3839,
      64085, "M", 3840, 3840, 64086, "M", 3841, 3841, 64087, "M", 3842, 3842, 64088, "M", 3843,
      3843, 64089, "M", 3844, 3844, 64090, "M", 3845, 3845, 64091, "M", 3846, 3846, 64092, "M",
      3847, 3847, 64093, "M", 3848, 3848, 64095, "M", 3849, 3849, 64096, "M", 3850, 3850, 64097,
      "M", 3851, 3851, 64098, "M", 3852, 3852, 64099, "M", 3853, 3853, 64100, "M", 3854, 3854,
      64101, "M", 3855, 3855, 64102, "M", 3856, 3856, 64103, "M", 3857, 3857, 64104, "M", 3858,
      3858, 64105, "M", 3859, 3859, 64106, "M", 3860, 3860, 64107, "M", 3861, 3861, 64108, "M",
      3862, 3862, 64109, "M", 3863, 3863, 64110, "X", 0, 0, 64112, "M", 3864, 3864, 64113, "M",
      3865, 3865, 64114, "M", 3866, 3866, 64115, "M", 3867, 3867, 64116, "M", 3868, 3868, 64117,
      "M", 3869, 3869, 64118, "M", 3870, 3870, 64119, "M", 3871, 3871, 64120, "M", 3872, 3872,
      64121, "M", 3873, 3873, 64122, "M", 3874, 3874, 64123, "M", 3875, 3875, 64124, "M", 3876,
      3876, 64125, "M", 3877, 3877, 64126, "M", 3878, 3878, 64127, "M", 3879, 3879, 64128, "M",
      3880, 3880, 64129, "M", 3881, 3881, 64130, "M", 3882, 3882, 64131, "M", 3883, 3883, 64132,
      "M", 3884, 3884, 64133, "M", 3885, 3885, 64134, "M", 3886, 3886, 64135, "M", 3887, 3887,
      64136, "M", 3888, 3888, 64137, "M", 3889, 3889, 64138, "M", 3890, 3890, 64139, "M", 3891,
      3891, 64140, "M", 3892, 3892, 64141, "M", 3893, 3893, 64142, "M", 3894, 3894, 64143, "M",
      3895, 3895, 64144, "M", 3896, 3896, 64145, "M", 3897, 3897, 64146, "M", 3898, 3898, 64147,
      "M", 3899, 3899, 64148, "M", 3900, 3900, 64149, "M", 3901, 3901, 64150, "M", 3902, 3902,
      64151, "M", 3903, 3903, 64152, "M", 3904, 3904, 64153, "M", 3905, 3905, 64154, "M", 3906,
      3906, 64155, "M", 3907, 3907, 64156, "M", 3908, 3908, 64157, "M", 3909, 3909, 64158, "M",
      3910, 3910, 64159, "M", 3911, 3911, 64160, "M", 3912, 3912, 64161, "M", 3913, 3913, 64162,
      "M", 3914, 3914, 64163, "M", 3915, 3915, 64164, "M", 3916, 3916, 64165, "M", 3917, 3917,
      64166, "M", 3918, 3918, 64167, "M", 3919, 3919, 64168, "M", 3920, 3920, 64169, "M", 3921,
      3921, 64170, "M", 3922, 3922, 64171, "M", 3923, 3923, 64172, "M", 3924, 3924, 64173, "M",
      3925, 3925, 64174, "M", 3926, 3926, 64175, "M", 3927, 3927, 64176, "M", 3928, 3928, 64177,
      "M", 3929, 3929, 64178, "M", 3930, 3930, 64179, "M", 3931, 3931, 64180, "M", 3932, 3932,
      64181, "M", 3933, 3933, 64182, "M", 3934, 3934, 64183, "M", 3935, 3935, 64184, "M", 3936,
      3936, 64185, "M", 3937, 3937, 64186, "M", 3938, 3938, 64187, "M", 3939, 3939, 64188, "M",
      3940, 3940, 64189, "M", 3941, 3941, 64190, "M", 3942, 3942, 64191, "M", 3943, 3943, 64192,
      "M", 3944, 3944, 64193, "M", 3945, 3945, 64194, "M", 3946, 3946, 64195, "M", 3947, 3947,
      64196, "M", 3948, 3948, 64197, "M", 3949, 3949, 64198, "M", 3950, 3950, 64199, "M", 3951,
      3951, 64200, "M", 3952, 3952, 64201, "M", 3953, 3953, 64202, "M", 3954, 3954, 64203, "M",
      3955, 3955, 64204, "M", 3956, 3956, 64205, "M", 3957, 3957, 64206, "M", 3958, 3958, 64207,
      "M", 3959, 3959, 64208, "M", 3960, 3960, 64209, "M", 3961, 3961, 64210, "M", 3962, 3962,
      64211, "M", 3963, 3963, 64212, "M", 3964, 3964, 64213, "M", 3965, 3965, 64214, "M", 3966,
      3966, 64215, "M", 3967, 3967, 64216, "M", 3968, 3968, 64217, "M", 3969, 3969, 64218, "X", 0,
      0, 64256, "M", 3970, 3971, 64257, "M", 3972, 3973, 64258, "M", 3974, 3975, 64259, "M", 3976,
      3978, 64260, "M", 3979, 3981, 64261, "M", 3982, 3983, 64263, "X", 0, 0, 64275, "M", 3984,
      3985, 64276, "M", 3986, 3987, 64277, "M", 3988, 3989, 64278, "M", 3990, 3991, 64279, "M",
      3992, 3993, 64280, "X", 0, 0, 64285, "M", 3994, 3995, 64286, "V", 0, 0, 64287, "M", 3996,
      3997, 64288, "M", 3998, 3998, 64289, "M", 3999, 3999, 64290, "M", 4000, 4000, 64291, "M",
      4001, 4001, 64292, "M", 4002, 4002, 64293, "M", 4003, 4003, 64294, "M", 4004, 4004, 64295,
      "M", 4005, 4005, 64296, "M", 4006, 4006, 64297, "3", 4007, 4007, 64298, "M", 4008, 4009,
      64299, "M", 4010, 4011, 64300, "M", 4012, 4014, 64301, "M", 4015, 4017, 64302, "M", 4018,
      4019, 64303, "M", 4020, 4021, 64304, "M", 4022, 4023, 64305, "M", 4024, 4025, 64306, "M",
      4026, 4027, 64307, "M", 4028, 4029, 64308, "M", 4030, 4031, 64309, "M", 4032, 4033, 64310,
      "M", 4034, 4035, 64311, "X", 0, 0, 64312, "M", 4036, 4037, 64313, "M", 4038, 4039, 64314, "M",
      4040, 4041, 64315, "M", 4042, 4043, 64316, "M", 4044, 4045, 64317, "X", 0, 0, 64318, "M",
      4046, 4047, 64319, "X", 0, 0, 64320, "M", 4048, 4049, 64321, "M", 4050, 4051, 64322, "X", 0,
      0, 64323, "M", 4052, 4053, 64324, "M", 4054, 4055, 64325, "X", 0, 0, 64326, "M", 4056, 4057,
      64327, "M", 4058, 4059, 64328, "M", 4060, 4061, 64329, "M", 4062, 4063, 64330, "M", 4064,
      4065, 64331, "M", 4066, 4067, 64332, "M", 4068, 4069, 64333, "M", 4070, 4071, 64334, "M",
      4072, 4073, 64335, "M", 4074, 4075, 64336, "M", 4076, 4076, 64338, "M", 4077, 4077, 64342,
      "M", 4078, 4078, 64346, "M", 4079, 4079, 64350, "M", 4080, 4080, 64354, "M", 4081, 4081,
      64358, "M", 4082, 4082, 64362, "M", 4083, 4083, 64366, "M", 4084, 4084, 64370, "M", 4085,
      4085, 64374, "M", 4086, 4086, 64378, "M", 4087, 4087, 64382, "M", 4088, 4088, 64386, "M",
      4089, 4089, 64388, "M", 4090, 4090, 64390, "M", 4091, 4091, 64392, "M", 4092, 4092, 64394,
      "M", 4093, 4093, 64396, "M", 4094, 4094, 64398, "M", 4095, 4095, 64402, "M", 4096, 4096,
      64406, "M", 4097, 4097, 64410, "M", 4098, 4098, 64414, "M", 4099, 4099, 64416, "M", 4100,
      4100, 64420, "M", 4101, 4101, 64422, "M", 4102, 4102, 64426, "M", 4103, 4103, 64430, "M",
      4104, 4104, 64432, "M", 4105, 4105, 64434, "V", 0, 0, 64451, "X", 0, 0, 64467, "M", 4106,
      4106, 64471, "M", 4107, 4107, 64473, "M", 4108, 4108, 64475, "M", 4109, 4109, 64477, "M",
      4110, 4111, 64478, "M", 4112, 4112, 64480, "M", 4113, 4113, 64482, "M", 4114, 4114, 64484,
      "M", 4115, 4115, 64488, "M", 4116, 4116, 64490, "M", 4117, 4118, 64492, "M", 4119, 4120,
      64494, "M", 4121, 4122, 64496, "M", 4123, 4124, 64498, "M", 4125, 4126, 64500, "M", 4127,
      4128, 64502, "M", 4129, 4130, 64505, "M", 4131, 4132, 64508, "M", 4133, 4133, 64512, "M",
      4134, 4135, 64513, "M", 4136, 4137, 64514, "M", 4138, 4139, 64515, "M", 4140, 4141, 64516,
      "M", 4142, 4143, 64517, "M", 4144, 4145, 64518, "M", 4146, 4147, 64519, "M", 4148, 4149,
      64520, "M", 4150, 4151, 64521, "M", 4152, 4153, 64522, "M", 4154, 4155, 64523, "M", 4156,
      4157, 64524, "M", 4158, 4159, 64525, "M", 4160, 4161, 64526, "M", 4162, 4163, 64527, "M",
      4164, 4165, 64528, "M", 4166, 4167, 64529, "M", 4168, 4169, 64530, "M", 4170, 4171, 64531,
      "M", 4172, 4173, 64532, "M", 4174, 4175, 64533, "M", 4176, 4177, 64534, "M", 4178, 4179,
      64535, "M", 4180, 4181, 64536, "M", 4182, 4183, 64537, "M", 4184, 4185, 64538, "M", 4186,
      4187, 64539, "M", 4188, 4189, 64540, "M", 4190, 4191, 64541, "M", 4192, 4193, 64542, "M",
      4194, 4195, 64543, "M", 4196, 4197, 64544, "M", 4198, 4199, 64545, "M", 4200, 4201, 64546,
      "M", 4202, 4203, 64547, "M", 4204, 4205, 64548, "M", 4206, 4207, 64549, "M", 4208, 4209,
      64550, "M", 4210, 4211, 64551, "M", 4212, 4213, 64552, "M", 4214, 4215, 64553, "M", 4216,
      4217, 64554, "M", 4218, 4219, 64555, "M", 4220, 4221, 64556, "M", 4222, 4223, 64557, "M",
      4224, 4225, 64558, "M", 4226, 4227, 64559, "M", 4228, 4229, 64560, "M", 4230, 4231, 64561,
      "M", 4232, 4233, 64562, "M", 4234, 4235, 64563, "M", 4236, 4237, 64564, "M", 4238, 4239,
      64565, "M", 4240, 4241, 64566, "M", 4242, 4243, 64567, "M", 4244, 4245, 64568, "M", 4246,
      4247, 64569, "M", 4248, 4249, 64570, "M", 4250, 4251, 64571, "M", 4252, 4253, 64572, "M",
      4254, 4255, 64573, "M", 4256, 4257, 64574, "M", 4258, 4259, 64575, "M", 4260, 4261, 64576,
      "M", 4262, 4263, 64577, "M", 4264, 4265, 64578, "M", 4266, 4267, 64579, "M", 4268, 4269,
      64580, "M", 4270, 4271, 64581, "M", 4272, 4273, 64582, "M", 4274, 4275, 64583, "M", 4276,
      4277, 64584, "M", 4278, 4279, 64585, "M", 4280, 4281, 64586, "M", 4282, 4283, 64587, "M",
      4284, 4285, 64588, "M", 4286, 4287, 64589, "M", 4288, 4289, 64590, "M", 4290, 4291, 64591,
      "M", 4292, 4293, 64592, "M", 4294, 4295, 64593, "M", 4296, 4297, 64594, "M", 4298, 4299,
      64595, "M", 4300, 4301, 64596, "M", 4302, 4303, 64597, "M", 4304, 4305, 64598, "M", 4306,
      4307, 64599, "M", 4308, 4309, 64600, "M", 4310, 4311, 64601, "M", 4312, 4313, 64602, "M",
      4314, 4315, 64603, "M", 4316, 4317, 64604, "M", 4318, 4319, 64605, "M", 4320, 4321, 64606,
      "3", 4322, 4324, 64607, "3", 4325, 4327, 64608, "3", 4328, 4330, 64609, "3", 4331, 4333,
      64610, "3", 4334, 4336, 64611, "3", 4337, 4339, 64612, "M", 4340, 4341, 64613, "M", 4342,
      4343, 64614, "M", 4344, 4345, 64615, "M", 4346, 4347, 64616, "M", 4348, 4349, 64617, "M",
      4350, 4351, 64618, "M", 4352, 4353, 64619, "M", 4354, 4355, 64620, "M", 4356, 4357, 64621,
      "M", 4358, 4359, 64622, "M", 4360, 4361, 64623, "M", 4362, 4363, 64624, "M", 4364, 4365,
      64625, "M", 4366, 4367, 64626, "M", 4368, 4369, 64627, "M", 4370, 4371, 64628, "M", 4372,
      4373, 64629, "M", 4374, 4375, 64630, "M", 4376, 4377, 64631, "M", 4378, 4379, 64632, "M",
      4380, 4381, 64633, "M", 4382, 4383, 64634, "M", 4384, 4385, 64635, "M", 4386, 4387, 64636,
      "M", 4388, 4389, 64637, "M", 4390, 4391, 64638, "M", 4392, 4393, 64639, "M", 4394, 4395,
      64640, "M", 4396, 4397, 64641, "M", 4398, 4399, 64642, "M", 4400, 4401, 64643, "M", 4402,
      4403, 64644, "M", 4404, 4405, 64645, "M", 4406, 4407, 64646, "M", 4408, 4409, 64647, "M",
      4410, 4411, 64648, "M", 4412, 4413, 64649, "M", 4414, 4415, 64650, "M", 4416, 4417, 64651,
      "M", 4418, 4419, 64652, "M", 4420, 4421, 64653, "M", 4422, 4423, 64654, "M", 4424, 4425,
      64655, "M", 4426, 4427, 64656, "M", 4428, 4429, 64657, "M", 4430, 4431, 64658, "M", 4432,
      4433, 64659, "M", 4434, 4435, 64660, "M", 4436, 4437, 64661, "M", 4438, 4439, 64662, "M",
      4440, 4441, 64663, "M", 4442, 4443, 64664, "M", 4444, 4445, 64665, "M", 4446, 4447, 64666,
      "M", 4448, 4449, 64667, "M", 4450, 4451, 64668, "M", 4452, 4453, 64669, "M", 4454, 4455,
      64670, "M", 4456, 4457, 64671, "M", 4458, 4459, 64672, "M", 4460, 4461, 64673, "M", 4462,
      4463, 64674, "M", 4464, 4465, 64675, "M", 4466, 4467, 64676, "M", 4468, 4469, 64677, "M",
      4470, 4471, 64678, "M", 4472, 4473, 64679, "M", 4474, 4475, 64680, "M", 4476, 4477, 64681,
      "M", 4478, 4479, 64682, "M", 4480, 4481, 64683, "M", 4482, 4483, 64684, "M", 4484, 4485,
      64685, "M", 4486, 4487, 64686, "M", 4488, 4489, 64687, "M", 4490, 4491, 64688, "M", 4492,
      4493, 64689, "M", 4494, 4495, 64690, "M", 4496, 4497, 64691, "M", 4498, 4499, 64692, "M",
      4500, 4501, 64693, "M", 4502, 4503, 64694, "M", 4504, 4505, 64695, "M", 4506, 4507, 64696,
      "M", 4508, 4509, 64697, "M", 4510, 4511, 64698, "M", 4512, 4513, 64699, "M", 4514, 4515,
      64700, "M", 4516, 4517, 64701, "M", 4518, 4519, 64702, "M", 4520, 4521, 64703, "M", 4522,
      4523, 64704, "M", 4524, 4525, 64705, "M", 4526, 4527, 64706, "M", 4528, 4529, 64707, "M",
      4530, 4531, 64708, "M", 4532, 4533, 64709, "M", 4534, 4535, 64710, "M", 4536, 4537, 64711,
      "M", 4538, 4539, 64712, "M", 4540, 4541, 64713, "M", 4542, 4543, 64714, "M", 4544, 4545,
      64715, "M", 4546, 4547, 64716, "M", 4548, 4549, 64717, "M", 4550, 4551, 64718, "M", 4552,
      4553, 64719, "M", 4554, 4555, 64720, "M", 4556, 4557, 64721, "M", 4558, 4559, 64722, "M",
      4560, 4561, 64723, "M", 4562, 4563, 64724, "M", 4564, 4565, 64725, "M", 4566, 4567, 64726,
      "M", 4568, 4569, 64727, "M", 4570, 4571, 64728, "M", 4572, 4573, 64729, "M", 4574, 4575,
      64730, "M", 4576, 4577, 64731, "M", 4578, 4579, 64732, "M", 4580, 4581, 64733, "M", 4582,
      4583, 64734, "M", 4584, 4585, 64735, "M", 4586, 4587, 64736, "M", 4588, 4589, 64737, "M",
      4590, 4591, 64738, "M", 4592, 4593, 64739, "M", 4594, 4595, 64740, "M", 4596, 4597, 64741,
      "M", 4598, 4599, 64742, "M", 4600, 4601, 64743, "M", 4602, 4603, 64744, "M", 4604, 4605,
      64745, "M", 4606, 4607, 64746, "M", 4608, 4609, 64747, "M", 4610, 4611, 64748, "M", 4612,
      4613, 64749, "M", 4614, 4615, 64750, "M", 4616, 4617, 64751, "M", 4618, 4619, 64752, "M",
      4620, 4621, 64753, "M", 4622, 4623, 64754, "M", 4624, 4626, 64755, "M", 4627, 4629, 64756,
      "M", 4630, 4632, 64757, "M", 4633, 4634, 64758, "M", 4635, 4636, 64759, "M", 4637, 4638,
      64760, "M", 4639, 4640, 64761, "M", 4641, 4642, 64762, "M", 4643, 4644, 64763, "M", 4645,
      4646, 64764, "M", 4647, 4648, 64765, "M", 4649, 4650, 64766, "M", 4651, 4652, 64767, "M",
      4653, 4654, 64768, "M", 4655, 4656, 64769, "M", 4657, 4658, 64770, "M", 4659, 4660, 64771,
      "M", 4661, 4662, 64772, "M", 4663, 4664, 64773, "M", 4665, 4666, 64774, "M", 4667, 4668,
      64775, "M", 4669, 4670, 64776, "M", 4671, 4672, 64777, "M", 4673, 4674, 64778, "M", 4675,
      4676, 64779, "M", 4677, 4678, 64780, "M", 4679, 4680, 64781, "M", 4681, 4682, 64782, "M",
      4683, 4684, 64783, "M", 4685, 4686, 64784, "M", 4687, 4688, 64785, "M", 4689, 4690, 64786,
      "M", 4691, 4692, 64787, "M", 4693, 4694, 64788, "M", 4695, 4696, 64789, "M", 4697, 4698,
      64790, "M", 4699, 4700, 64791, "M", 4701, 4702, 64792, "M", 4703, 4704, 64793, "M", 4705,
      4706, 64794, "M", 4707, 4708, 64795, "M", 4709, 4710, 64796, "M", 4711, 4712, 64797, "M",
      4713, 4714, 64798, "M", 4715, 4716, 64799, "M", 4717, 4718, 64800, "M", 4719, 4720, 64801,
      "M", 4721, 4722, 64802, "M", 4723, 4724, 64803, "M", 4725, 4726, 64804, "M", 4727, 4728,
      64805, "M", 4729, 4730, 64806, "M", 4731, 4732, 64807, "M", 4733, 4734, 64808, "M", 4735,
      4736, 64809, "M", 4737, 4738, 64810, "M", 4739, 4740, 64811, "M", 4741, 4742, 64812, "M",
      4743, 4744, 64813, "M", 4745, 4746, 64814, "M", 4747, 4748, 64815, "M", 4749, 4750, 64816,
      "M", 4751, 4752, 64817, "M", 4753, 4754, 64818, "M", 4755, 4756, 64819, "M", 4757, 4758,
      64820, "M", 4759, 4760, 64821, "M", 4761, 4762, 64822, "M", 4763, 4764, 64823, "M", 4765,
      4766, 64824, "M", 4767, 4768, 64825, "M", 4769, 4770, 64826, "M", 4771, 4772, 64827, "M",
      4773, 4774, 64828, "M", 4775, 4776, 64830, "V", 0, 0, 64848, "M", 4777, 4779, 64849, "M",
      4780, 4782, 64851, "M", 4783, 4785, 64852, "M", 4786, 4788, 64853, "M", 4789, 4791, 64854,
      "M", 4792, 4794, 64855, "M", 4795, 4797, 64856, "M", 4798, 4800, 64858, "M", 4801, 4803,
      64859, "M", 4804, 4806, 64860, "M", 4807, 4809, 64861, "M", 4810, 4812, 64862, "M", 4813,
      4815, 64863, "M", 4816, 4818, 64865, "M", 4819, 4821, 64866, "M", 4822, 4824, 64868, "M",
      4825, 4827, 64870, "M", 4828, 4830, 64871, "M", 4831, 4833, 64873, "M", 4834, 4836, 64874,
      "M", 4837, 4839, 64876, "M", 4840, 4842, 64878, "M", 4843, 4845, 64879, "M", 4846, 4848,
      64881, "M", 4849, 4851, 64883, "M", 4852, 4854, 64884, "M", 4855, 4857, 64885, "M", 4858,
      4860, 64886, "M", 4861, 4863, 64888, "M", 4864, 4866, 64889, "M", 4867, 4869, 64890, "M",
      4870, 4872, 64891, "M", 4873, 4875, 64892, "M", 4876, 4878, 64894, "M", 4879, 4881, 64895,
      "M", 4882, 4884, 64896, "M", 4885, 4887, 64897, "M", 4888, 4890, 64898, "M", 4891, 4893,
      64899, "M", 4894, 4896, 64901, "M", 4897, 4899, 64903, "M", 4900, 4902, 64905, "M", 4903,
      4905, 64906, "M", 4906, 4908, 64907, "M", 4909, 4911, 64908, "M", 4912, 4914, 64909, "M",
      4915, 4917, 64910, "M", 4918, 4920, 64911, "M", 4921, 4923, 64912, "X", 0, 0, 64914, "M",
      4924, 4926, 64915, "M", 4927, 4929, 64916, "M", 4930, 4932, 64917, "M", 4933, 4935, 64918,
      "M", 4936, 4938, 64919, "M", 4939, 4941, 64921, "M", 4942, 4944, 64922, "M", 4945, 4947,
      64923, "M", 4948, 4950, 64924, "M", 4951, 4953, 64926, "M", 4954, 4956, 64927, "M", 4957,
      4959, 64928, "M", 4960, 4962, 64929, "M", 4963, 4965, 64930, "M", 4966, 4968, 64931, "M",
      4969, 4971, 64932, "M", 4972, 4974, 64933, "M", 4975, 4977, 64934, "M", 4978, 4980, 64935,
      "M", 4981, 4983, 64936, "M", 4984, 4986, 64937, "M", 4987, 4989, 64938, "M", 4990, 4992,
      64939, "M", 4993, 4995, 64940, "M", 4996, 4998, 64941, "M", 4999, 5001, 64942, "M", 5002,
      5004, 64943, "M", 5005, 5007, 64944, "M", 5008, 5010, 64945, "M", 5011, 5013, 64946, "M",
      5014, 5016, 64947, "M", 5017, 5019, 64948, "M", 5020, 5022, 64949, "M", 5023, 5025, 64950,
      "M", 5026, 5028, 64951, "M", 5029, 5031, 64952, "M", 5032, 5034, 64953, "M", 5035, 5037,
      64954, "M", 5038, 5040, 64955, "M", 5041, 5043, 64956, "M", 5044, 5046, 64957, "M", 5047,
      5049, 64958, "M", 5050, 5052, 64959, "M", 5053, 5055, 64960, "M", 5056, 5058, 64961, "M",
      5059, 5061, 64962, "M", 5062, 5064, 64963, "M", 5065, 5067, 64964, "M", 5068, 5070, 64965,
      "M", 5071, 5073, 64966, "M", 5074, 5076, 64967, "M", 5077, 5079, 64968, "X", 0, 0, 64975, "V",
      0, 0, 64976, "X", 0, 0, 65008, "M", 5080, 5082, 65009, "M", 5083, 5085, 65010, "M", 5086,
      5089, 65011, "M", 5090, 5093, 65012, "M", 5094, 5097, 65013, "M", 5098, 5101, 65014, "M",
      5102, 5105, 65015, "M", 5106, 5109, 65016, "M", 5110, 5113, 65017, "M", 5114, 5116, 65018,
      "3", 5117, 5134, 65019, "3", 5135, 5142, 65020, "M", 5143, 5146, 65021, "V", 0, 0, 65024, "I",
      0, 0, 65040, "3", 5147, 5147, 65041, "M", 5148, 5148, 65042, "X", 0, 0, 65043, "3", 5149,
      5149, 65044, "3", 5150, 5150, 65045, "3", 5151, 5151, 65046, "3", 5152, 5152, 65047, "M",
      5153, 5153, 65048, "M", 5154, 5154, 65049, "X", 0, 0, 65056, "V", 0, 0, 65072, "X", 0, 0,
      65073, "M", 5155, 5155, 65074, "M", 5156, 5156, 65075, "3", 5157, 5157, 65077, "3", 5158,
      5158, 65078, "3", 5159, 5159, 65079, "3", 5160, 5160, 65080, "3", 5161, 5161, 65081, "M",
      5162, 5162, 65082, "M", 5163, 5163, 65083, "M", 5164, 5164, 65084, "M", 5165, 5165, 65085,
      "M", 5166, 5166, 65086, "M", 5167, 5167, 65087, "M", 5168, 5168, 65088, "M", 5169, 5169,
      65089, "M", 5170, 5170, 65090, "M", 5171, 5171, 65091, "M", 5172, 5172, 65092, "M", 5173,
      5173, 65093, "V", 0, 0, 65095, "3", 5174, 5174, 65096, "3", 5175, 5175, 65097, "3", 5176,
      5177, 65101, "3", 5178, 5178, 65104, "3", 5179, 5179, 65105, "M", 5180, 5180, 65106, "X", 0,
      0, 65108, "3", 5181, 5181, 65109, "3", 5182, 5182, 65110, "3", 5183, 5183, 65111, "3", 5184,
      5184, 65112, "M", 5185, 5185, 65113, "3", 5186, 5186, 65114, "3", 5187, 5187, 65115, "3",
      5188, 5188, 65116, "3", 5189, 5189, 65117, "M", 5190, 5190, 65118, "M", 5191, 5191, 65119,
      "3", 5192, 5192, 65120, "3", 5193, 5193, 65121, "3", 5194, 5194, 65122, "3", 5195, 5195,
      65123, "M", 5196, 5196, 65124, "3", 5197, 5197, 65125, "3", 5198, 5198, 65126, "3", 5199,
      5199, 65127, "X", 0, 0, 65128, "3", 5200, 5200, 65129, "3", 5201, 5201, 65130, "3", 5202,
      5202, 65131, "3", 5203, 5203, 65132, "X", 0, 0, 65136, "3", 5204, 5205, 65137, "M", 5206,
      5207, 65138, "3", 5208, 5209, 65139, "V", 0, 0, 65140, "3", 5210, 5211, 65141, "X", 0, 0,
      65142, "3", 5212, 5213, 65143, "M", 5214, 5215, 65144, "3", 5216, 5217, 65145, "M", 5218,
      5219, 65146, "3", 5220, 5221, 65147, "M", 5222, 5223, 65148, "3", 5224, 5225, 65149, "M",
      5226, 5227, 65150, "3", 5228, 5229, 65151, "M", 5230, 5231, 65152, "M", 5232, 5232, 65153,
      "M", 5233, 5233, 65155, "M", 5234, 5234, 65157, "M", 5235, 5235, 65159, "M", 5236, 5236,
      65161, "M", 5237, 5237, 65165, "M", 5238, 5238, 65167, "M", 5239, 5239, 65171, "M", 5240,
      5240, 65173, "M", 5241, 5241, 65177, "M", 5242, 5242, 65181, "M", 5243, 5243, 65185, "M",
      5244, 5244, 65189, "M", 5245, 5245, 65193, "M", 5246, 5246, 65195, "M", 5247, 5247, 65197,
      "M", 5248, 5248, 65199, "M", 5249, 5249, 65201, "M", 5250, 5250, 65205, "M", 5251, 5251,
      65209, "M", 5252, 5252, 65213, "M", 5253, 5253, 65217, "M", 5254, 5254, 65221, "M", 5255,
      5255, 65225, "M", 5256, 5256, 65229, "M", 5257, 5257, 65233, "M", 5258, 5258, 65237, "M",
      5259, 5259, 65241, "M", 5260, 5260, 65245, "M", 5261, 5261, 65249, "M", 5262, 5262, 65253,
      "M", 5263, 5263, 65257, "M", 5264, 5264, 65261, "M", 5265, 5265, 65263, "M", 5266, 5266,
      65265, "M", 5267, 5267, 65269, "M", 5268, 5269, 65271, "M", 5270, 5271, 65273, "M", 5272,
      5273, 65275, "M", 5274, 5275, 65277, "X", 0, 0, 65279, "I", 0, 0, 65280, "X", 0, 0, 65281,
      "3", 5276, 5276, 65282, "3", 5277, 5277, 65283, "3", 5278, 5278, 65284, "3", 5279, 5279,
      65285, "3", 5280, 5280, 65286, "3", 5281, 5281, 65287, "3", 5282, 5282, 65288, "3", 5283,
      5283, 65289, "3", 5284, 5284, 65290, "3", 5285, 5285, 65291, "3", 5286, 5286, 65292, "3",
      5287, 5287, 65293, "M", 5288, 5288, 65294, "M", 5289, 5289, 65295, "3", 5290, 5290, 65296,
      "M", 5291, 5291, 65297, "M", 5292, 5292, 65298, "M", 5293, 5293, 65299, "M", 5294, 5294,
      65300, "M", 5295, 5295, 65301, "M", 5296, 5296, 65302, "M", 5297, 5297, 65303, "M", 5298,
      5298, 65304, "M", 5299, 5299, 65305, "M", 5300, 5300, 65306, "3", 5301, 5301, 65307, "3",
      5302, 5302, 65308, "3", 5303, 5303, 65309, "3", 5304, 5304, 65310, "3", 5305, 5305, 65311,
      "3", 5306, 5306, 65312, "3", 5307, 5307, 65313, "M", 5308, 5308, 65314, "M", 5309, 5309,
      65315, "M", 5310, 5310, 65316, "M", 5311, 5311, 65317, "M", 5312, 5312, 65318, "M", 5313,
      5313, 65319, "M", 5314, 5314, 65320, "M", 5315, 5315, 65321, "M", 5316, 5316, 65322, "M",
      5317, 5317, 65323, "M", 5318, 5318, 65324, "M", 5319, 5319, 65325, "M", 5320, 5320, 65326,
      "M", 5321, 5321, 65327, "M", 5322, 5322, 65328, "M", 5323, 5323, 65329, "M", 5324, 5324,
      65330, "M", 5325, 5325, 65331, "M", 5326, 5326, 65332, "M", 5327, 5327, 65333, "M", 5328,
      5328, 65334, "M", 5329, 5329, 65335, "M", 5330, 5330, 65336, "M", 5331, 5331, 65337, "M",
      5332, 5332, 65338, "M", 5333, 5333, 65339, "3", 5334, 5334, 65340, "3", 5335, 5335, 65341,
      "3", 5336, 5336, 65342, "3", 5337, 5337, 65343, "3", 5338, 5338, 65344, "3", 5339, 5339,
      65345, "M", 5340, 5340, 65346, "M", 5341, 5341, 65347, "M", 5342, 5342, 65348, "M", 5343,
      5343, 65349, "M", 5344, 5344, 65350, "M", 5345, 5345, 65351, "M", 5346, 5346, 65352, "M",
      5347, 5347, 65353, "M", 5348, 5348, 65354, "M", 5349, 5349, 65355, "M", 5350, 5350, 65356,
      "M", 5351, 5351, 65357, "M", 5352, 5352, 65358, "M", 5353, 5353, 65359, "M", 5354, 5354,
      65360, "M", 5355, 5355, 65361, "M", 5356, 5356, 65362, "M", 5357, 5357, 65363, "M", 5358,
      5358, 65364, "M", 5359, 5359, 65365, "M", 5360, 5360, 65366, "M", 5361, 5361, 65367, "M",
      5362, 5362, 65368, "M", 5363, 5363, 65369, "M", 5364, 5364, 65370, "M", 5365, 5365, 65371,
      "3", 5366, 5366, 65372, "3", 5367, 5367, 65373, "3", 5368, 5368, 65374, "3", 5369, 5369,
      65375, "M", 5370, 5370, 65376, "M", 5371, 5371, 65377, "M", 5372, 5372, 65378, "M", 5373,
      5373, 65379, "M", 5374, 5374, 65380, "M", 5375, 5375, 65381, "M", 5376, 5376, 65382, "M",
      5377, 5377, 65383, "M", 5378, 5378, 65384, "M", 5379, 5379, 65385, "M", 5380, 5380, 65386,
      "M", 5381, 5381, 65387, "M", 5382, 5382, 65388, "M", 5383, 5383, 65389, "M", 5384, 5384,
      65390, "M", 5385, 5385, 65391, "M", 5386, 5386, 65392, "M", 5387, 5387, 65393, "M", 5388,
      5388, 65394, "M", 5389, 5389, 65395, "M", 5390, 5390, 65396, "M", 5391, 5391, 65397, "M",
      5392, 5392, 65398, "M", 5393, 5393, 65399, "M", 5394, 5394, 65400, "M", 5395, 5395, 65401,
      "M", 5396, 5396, 65402, "M", 5397, 5397, 65403, "M", 5398, 5398, 65404, "M", 5399, 5399,
      65405, "M", 5400, 5400, 65406, "M", 5401, 5401, 65407, "M", 5402, 5402, 65408, "M", 5403,
      5403, 65409, "M", 5404, 5404, 65410, "M", 5405, 5405, 65411, "M", 5406, 5406, 65412, "M",
      5407, 5407, 65413, "M", 5408, 5408, 65414, "M", 5409, 5409, 65415, "M", 5410, 5410, 65416,
      "M", 5411, 5411, 65417, "M", 5412, 5412, 65418, "M", 5413, 5413, 65419, "M", 5414, 5414,
      65420, "M", 5415, 5415, 65421, "M", 5416, 5416, 65422, "M", 5417, 5417, 65423, "M", 5418,
      5418, 65424, "M", 5419, 5419, 65425, "M", 5420, 5420, 65426, "M", 5421, 5421, 65427, "M",
      5422, 5422, 65428, "M", 5423, 5423, 65429, "M", 5424, 5424, 65430, "M", 5425, 5425, 65431,
      "M", 5426, 5426, 65432, "M", 5427, 5427, 65433, "M", 5428, 5428, 65434, "M", 5429, 5429,
      65435, "M", 5430, 5430, 65436, "M", 5431, 5431, 65437, "M", 5432, 5432, 65438, "M", 5433,
      5433, 65439, "M", 5434, 5434, 65440, "X", 0, 0, 65441, "M", 5435, 5435, 65442, "M", 5436,
      5436, 65443, "M", 5437, 5437, 65444, "M", 5438, 5438, 65445, "M", 5439, 5439, 65446, "M",
      5440, 5440, 65447, "M", 5441, 5441, 65448, "M", 5442, 5442, 65449, "M", 5443, 5443, 65450,
      "M", 5444, 5444, 65451, "M", 5445, 5445, 65452, "M", 5446, 5446, 65453, "M", 5447, 5447,
      65454, "M", 5448, 5448, 65455, "M", 5449, 5449, 65456, "M", 5450, 5450, 65457, "M", 5451,
      5451, 65458, "M", 5452, 5452, 65459, "M", 5453, 5453, 65460, "M", 5454, 5454, 65461, "M",
      5455, 5455, 65462, "M", 5456, 5456, 65463, "M", 5457, 5457, 65464, "M", 5458, 5458, 65465,
      "M", 5459, 5459, 65466, "M", 5460, 5460, 65467, "M", 5461, 5461, 65468, "M", 5462, 5462,
      65469, "M", 5463, 5463, 65470, "M", 5464, 5464, 65471, "X", 0, 0, 65474, "M", 5465, 5465,
      65475, "M", 5466, 5466, 65476, "M", 5467, 5467, 65477, "M", 5468, 5468, 65478, "M", 5469,
      5469, 65479, "M", 5470, 5470, 65480, "X", 0, 0, 65482, "M", 5471, 5471, 65483, "M", 5472,
      5472, 65484, "M", 5473, 5473, 65485, "M", 5474, 5474, 65486, "M", 5475, 5475, 65487, "M",
      5476, 5476, 65488, "X", 0, 0, 65490, "M", 5477, 5477, 65491, "M", 5478, 5478, 65492, "M",
      5479, 5479, 65493, "M", 5480, 5480, 65494, "M", 5481, 5481, 65495, "M", 5482, 5482, 65496,
      "X", 0, 0, 65498, "M", 5483, 5483, 65499, "M", 5484, 5484, 65500, "M", 5485, 5485, 65501, "X",
      0, 0, 65504, "M", 5486, 5486, 65505, "M", 5487, 5487, 65506, "M", 5488, 5488, 65507, "3",
      5489, 5490, 65508, "M", 5491, 5491, 65509, "M", 5492, 5492, 65510, "M", 5493, 5493, 65511,
      "X", 0, 0, 65512, "M", 5494, 5494, 65513, "M", 5495, 5495, 65514, "M", 5496, 5496, 65515, "M",
      5497, 5497, 65516, "M", 5498, 5498, 65517, "M", 5499, 5499, 65518, "M", 5500, 5500, 65519,
      "X", 0, 0, 65536, "V", 0, 0, 65548, "X", 0, 0, 65549, "V", 0, 0, 65575, "X", 0, 0, 65576, "V",
      0, 0, 65595, "X", 0, 0, 65596, "V", 0, 0, 65598, "X", 0, 0, 65599, "V", 0, 0, 65614, "X", 0,
      0, 65616, "V", 0, 0, 65630, "X", 0, 0, 65664, "V", 0, 0, 65787, "X", 0, 0, 65792, "V", 0, 0,
      65795, "X", 0, 0, 65799, "V", 0, 0, 65844, "X", 0, 0, 65847, "V", 0, 0, 65935, "X", 0, 0,
      65936, "V", 0, 0, 65949, "X", 0, 0, 65952, "V", 0, 0, 65953, "X", 0, 0, 66000, "V", 0, 0,
      66046, "X", 0, 0, 66176, "V", 0, 0, 66205, "X", 0, 0, 66208, "V", 0, 0, 66257, "X", 0, 0,
      66272, "V", 0, 0, 66300, "X", 0, 0, 66304, "V", 0, 0, 66340, "X", 0, 0, 66349, "V", 0, 0,
      66379, "X", 0, 0, 66384, "V", 0, 0, 66427, "X", 0, 0, 66432, "V", 0, 0, 66462, "X", 0, 0,
      66463, "V", 0, 0, 66500, "X", 0, 0, 66504, "V", 0, 0, 66518, "X", 0, 0, 66560, "M", 5501,
      5501, 66561, "M", 5502, 5502, 66562, "M", 5503, 5503, 66563, "M", 5504, 5504, 66564, "M",
      5505, 5505, 66565, "M", 5506, 5506, 66566, "M", 5507, 5507, 66567, "M", 5508, 5508, 66568,
      "M", 5509, 5509, 66569, "M", 5510, 5510, 66570, "M", 5511, 5511, 66571, "M", 5512, 5512,
      66572, "M", 5513, 5513, 66573, "M", 5514, 5514, 66574, "M", 5515, 5515, 66575, "M", 5516,
      5516, 66576, "M", 5517, 5517, 66577, "M", 5518, 5518, 66578, "M", 5519, 5519, 66579, "M",
      5520, 5520, 66580, "M", 5521, 5521, 66581, "M", 5522, 5522, 66582, "M", 5523, 5523, 66583,
      "M", 5524, 5524, 66584, "M", 5525, 5525, 66585, "M", 5526, 5526, 66586, "M", 5527, 5527,
      66587, "M", 5528, 5528, 66588, "M", 5529, 5529, 66589, "M", 5530, 5530, 66590, "M", 5531,
      5531, 66591, "M", 5532, 5532, 66592, "M", 5533, 5533, 66593, "M", 5534, 5534, 66594, "M",
      5535, 5535, 66595, "M", 5536, 5536, 66596, "M", 5537, 5537, 66597, "M", 5538, 5538, 66598,
      "M", 5539, 5539, 66599, "M", 5540, 5540, 66600, "V", 0, 0, 66718, "X", 0, 0, 66720, "V", 0, 0,
      66730, "X", 0, 0, 66736, "M", 5541, 5541, 66737, "M", 5542, 5542, 66738, "M", 5543, 5543,
      66739, "M", 5544, 5544, 66740, "M", 5545, 5545, 66741, "M", 5546, 5546, 66742, "M", 5547,
      5547, 66743, "M", 5548, 5548, 66744, "M", 5549, 5549, 66745, "M", 5550, 5550, 66746, "M",
      5551, 5551, 66747, "M", 5552, 5552, 66748, "M", 5553, 5553, 66749, "M", 5554, 5554, 66750,
      "M", 5555, 5555, 66751, "M", 5556, 5556, 66752, "M", 5557, 5557, 66753, "M", 5558, 5558,
      66754, "M", 5559, 5559, 66755, "M", 5560, 5560, 66756, "M", 5561, 5561, 66757, "M", 5562,
      5562, 66758, "M", 5563, 5563, 66759, "M", 5564, 5564, 66760, "M", 5565, 5565, 66761, "M",
      5566, 5566, 66762, "M", 5567, 5567, 66763, "M", 5568, 5568, 66764, "M", 5569, 5569, 66765,
      "M", 5570, 5570, 66766, "M", 5571, 5571, 66767, "M", 5572, 5572, 66768, "M", 5573, 5573,
      66769, "M", 5574, 5574, 66770, "M", 5575, 5575, 66771, "M", 5576, 5576, 66772, "X", 0, 0,
      66776, "V", 0, 0, 66812, "X", 0, 0, 66816, "V", 0, 0, 66856, "X", 0, 0, 66864, "V", 0, 0,
      66916, "X", 0, 0, 66927, "V", 0, 0, 66928, "M", 5577, 5577, 66929, "M", 5578, 5578, 66930,
      "M", 5579, 5579, 66931, "M", 5580, 5580, 66932, "M", 5581, 5581, 66933, "M", 5582, 5582,
      66934, "M", 5583, 5583, 66935, "M", 5584, 5584, 66936, "M", 5585, 5585, 66937, "M", 5586,
      5586, 66938, "M", 5587, 5587, 66939, "X", 0, 0, 66940, "M", 5588, 5588, 66941, "M", 5589,
      5589, 66942, "M", 5590, 5590, 66943, "M", 5591, 5591, 66944, "M", 5592, 5592, 66945, "M",
      5593, 5593, 66946, "M", 5594, 5594, 66947, "M", 5595, 5595, 66948, "M", 5596, 5596, 66949,
      "M", 5597, 5597, 66950, "M", 5598, 5598, 66951, "M", 5599, 5599, 66952, "M", 5600, 5600,
      66953, "M", 5601, 5601, 66954, "M", 5602, 5602, 66955, "X", 0, 0, 66956, "M", 5603, 5603,
      66957, "M", 5604, 5604, 66958, "M", 5605, 5605, 66959, "M", 5606, 5606, 66960, "M", 5607,
      5607, 66961, "M", 5608, 5608, 66962, "M", 5609, 5609, 66963, "X", 0, 0, 66964, "M", 5610,
      5610, 66965, "M", 5611, 5611, 66966, "X", 0, 0, 66967, "V", 0, 0, 66978, "X", 0, 0, 66979,
      "V", 0, 0, 66994, "X", 0, 0, 66995, "V", 0, 0, 67002, "X", 0, 0, 67003, "V", 0, 0, 67005, "X",
      0, 0, 67072, "V", 0, 0, 67383, "X", 0, 0, 67392, "V", 0, 0, 67414, "X", 0, 0, 67424, "V", 0,
      0, 67432, "X", 0, 0, 67456, "V", 0, 0, 67457, "M", 5612, 5612, 67458, "M", 5613, 5613, 67459,
      "M", 5614, 5614, 67460, "M", 5615, 5615, 67461, "M", 5616, 5616, 67462, "X", 0, 0, 67463, "M",
      5617, 5617, 67464, "M", 5618, 5618, 67465, "M", 5619, 5619, 67466, "M", 5620, 5620, 67467,
      "M", 5621, 5621, 67468, "M", 5622, 5622, 67469, "M", 5623, 5623, 67470, "M", 5624, 5624,
      67471, "M", 5625, 5625, 67472, "M", 5626, 5626, 67473, "M", 5627, 5627, 67474, "M", 5628,
      5628, 67475, "M", 5629, 5629, 67476, "M", 5630, 5630, 67477, "M", 5631, 5631, 67478, "M",
      5632, 5632, 67479, "M", 5633, 5633, 67480, "M", 5634, 5634, 67481, "M", 5635, 5635, 67482,
      "M", 5636, 5636, 67483, "M", 5637, 5637, 67484, "M", 5638, 5638, 67485, "M", 5639, 5639,
      67486, "M", 5640, 5640, 67487, "M", 5641, 5641, 67488, "M", 5642, 5642, 67489, "M", 5643,
      5643, 67490, "M", 5644, 5644, 67491, "M", 5645, 5645, 67492, "M", 5646, 5646, 67493, "M",
      5647, 5647, 67494, "M", 5648, 5648, 67495, "M", 5649, 5649, 67496, "M", 5650, 5650, 67497,
      "M", 5651, 5651, 67498, "M", 5652, 5652, 67499, "M", 5653, 5653, 67500, "M", 5654, 5654,
      67501, "M", 5655, 5655, 67502, "M", 5656, 5656, 67503, "M", 5657, 5657, 67504, "M", 5658,
      5658, 67505, "X", 0, 0, 67506, "M", 5659, 5659, 67507, "M", 5660, 5660, 67508, "M", 5661,
      5661, 67509, "M", 5662, 5662, 67510, "M", 5663, 5663, 67511, "M", 5664, 5664, 67512, "M",
      5665, 5665, 67513, "M", 5666, 5666, 67514, "M", 5667, 5667, 67515, "X", 0, 0, 67584, "V", 0,
      0, 67590, "X", 0, 0, 67592, "V", 0, 0, 67593, "X", 0, 0, 67594, "V", 0, 0, 67638, "X", 0, 0,
      67639, "V", 0, 0, 67641, "X", 0, 0, 67644, "V", 0, 0, 67645, "X", 0, 0, 67647, "V", 0, 0,
      67670, "X", 0, 0, 67671, "V", 0, 0, 67743, "X", 0, 0, 67751, "V", 0, 0, 67760, "X", 0, 0,
      67808, "V", 0, 0, 67827, "X", 0, 0, 67828, "V", 0, 0, 67830, "X", 0, 0, 67835, "V", 0, 0,
      67868, "X", 0, 0, 67871, "V", 0, 0, 67898, "X", 0, 0, 67903, "V", 0, 0, 67904, "X", 0, 0,
      67968, "V", 0, 0, 68024, "X", 0, 0, 68028, "V", 0, 0, 68048, "X", 0, 0, 68050, "V", 0, 0,
      68100, "X", 0, 0, 68101, "V", 0, 0, 68103, "X", 0, 0, 68108, "V", 0, 0, 68116, "X", 0, 0,
      68117, "V", 0, 0, 68120, "X", 0, 0, 68121, "V", 0, 0, 68150, "X", 0, 0, 68152, "V", 0, 0,
      68155, "X", 0, 0, 68159, "V", 0, 0, 68169, "X", 0, 0, 68176, "V", 0, 0, 68185, "X", 0, 0,
      68192, "V", 0, 0, 68256, "X", 0, 0, 68288, "V", 0, 0, 68327, "X", 0, 0, 68331, "V", 0, 0,
      68343, "X", 0, 0, 68352, "V", 0, 0, 68406, "X", 0, 0, 68409, "V", 0, 0, 68438, "X", 0, 0,
      68440, "V", 0, 0, 68467, "X", 0, 0, 68472, "V", 0, 0, 68498, "X", 0, 0, 68505, "V", 0, 0,
      68509, "X", 0, 0, 68521, "V", 0, 0, 68528, "X", 0, 0, 68608, "V", 0, 0, 68681, "X", 0, 0,
      68736, "M", 5668, 5668, 68737, "M", 5669, 5669, 68738, "M", 5670, 5670, 68739, "M", 5671,
      5671, 68740, "M", 5672, 5672, 68741, "M", 5673, 5673, 68742, "M", 5674, 5674, 68743, "M",
      5675, 5675, 68744, "M", 5676, 5676, 68745, "M", 5677, 5677, 68746, "M", 5678, 5678, 68747,
      "M", 5679, 5679, 68748, "M", 5680, 5680, 68749, "M", 5681, 5681, 68750, "M", 5682, 5682,
      68751, "M", 5683, 5683, 68752, "M", 5684, 5684, 68753, "M", 5685, 5685, 68754, "M", 5686,
      5686, 68755, "M", 5687, 5687, 68756, "M", 5688, 5688, 68757, "M", 5689, 5689, 68758, "M",
      5690, 5690, 68759, "M", 5691, 5691, 68760, "M", 5692, 5692, 68761, "M", 5693, 5693, 68762,
      "M", 5694, 5694, 68763, "M", 5695, 5695, 68764, "M", 5696, 5696, 68765, "M", 5697, 5697,
      68766, "M", 5698, 5698, 68767, "M", 5699, 5699, 68768, "M", 5700, 5700, 68769, "M", 5701,
      5701, 68770, "M", 5702, 5702, 68771, "M", 5703, 5703, 68772, "M", 5704, 5704, 68773, "M",
      5705, 5705, 68774, "M", 5706, 5706, 68775, "M", 5707, 5707, 68776, "M", 5708, 5708, 68777,
      "M", 5709, 5709, 68778, "M", 5710, 5710, 68779, "M", 5711, 5711, 68780, "M", 5712, 5712,
      68781, "M", 5713, 5713, 68782, "M", 5714, 5714, 68783, "M", 5715, 5715, 68784, "M", 5716,
      5716, 68785, "M", 5717, 5717, 68786, "M", 5718, 5718, 68787, "X", 0, 0, 68800, "V", 0, 0,
      68851, "X", 0, 0, 68858, "V", 0, 0, 68904, "X", 0, 0, 68912, "V", 0, 0, 68922, "X", 0, 0,
      69216, "V", 0, 0, 69247, "X", 0, 0, 69248, "V", 0, 0, 69290, "X", 0, 0, 69291, "V", 0, 0,
      69294, "X", 0, 0, 69296, "V", 0, 0, 69298, "X", 0, 0, 69373, "V", 0, 0, 69416, "X", 0, 0,
      69424, "V", 0, 0, 69466, "X", 0, 0, 69488, "V", 0, 0, 69514, "X", 0, 0, 69552, "V", 0, 0,
      69580, "X", 0, 0, 69600, "V", 0, 0, 69623, "X", 0, 0, 69632, "V", 0, 0, 69710, "X", 0, 0,
      69714, "V", 0, 0, 69750, "X", 0, 0, 69759, "V", 0, 0, 69821, "X", 0, 0, 69822, "V", 0, 0,
      69827, "X", 0, 0, 69840, "V", 0, 0, 69865, "X", 0, 0, 69872, "V", 0, 0, 69882, "X", 0, 0,
      69888, "V", 0, 0, 69941, "X", 0, 0, 69942, "V", 0, 0, 69960, "X", 0, 0, 69968, "V", 0, 0,
      70007, "X", 0, 0, 70016, "V", 0, 0, 70112, "X", 0, 0, 70113, "V", 0, 0, 70133, "X", 0, 0,
      70144, "V", 0, 0, 70162, "X", 0, 0, 70163, "V", 0, 0, 70210, "X", 0, 0, 70272, "V", 0, 0,
      70279, "X", 0, 0, 70280, "V", 0, 0, 70281, "X", 0, 0, 70282, "V", 0, 0, 70286, "X", 0, 0,
      70287, "V", 0, 0, 70302, "X", 0, 0, 70303, "V", 0, 0, 70314, "X", 0, 0, 70320, "V", 0, 0,
      70379, "X", 0, 0, 70384, "V", 0, 0, 70394, "X", 0, 0, 70400, "V", 0, 0, 70404, "X", 0, 0,
      70405, "V", 0, 0, 70413, "X", 0, 0, 70415, "V", 0, 0, 70417, "X", 0, 0, 70419, "V", 0, 0,
      70441, "X", 0, 0, 70442, "V", 0, 0, 70449, "X", 0, 0, 70450, "V", 0, 0, 70452, "X", 0, 0,
      70453, "V", 0, 0, 70458, "X", 0, 0, 70459, "V", 0, 0, 70469, "X", 0, 0, 70471, "V", 0, 0,
      70473, "X", 0, 0, 70475, "V", 0, 0, 70478, "X", 0, 0, 70480, "V", 0, 0, 70481, "X", 0, 0,
      70487, "V", 0, 0, 70488, "X", 0, 0, 70493, "V", 0, 0, 70500, "X", 0, 0, 70502, "V", 0, 0,
      70509, "X", 0, 0, 70512, "V", 0, 0, 70517, "X", 0, 0, 70656, "V", 0, 0, 70748, "X", 0, 0,
      70749, "V", 0, 0, 70754, "X", 0, 0, 70784, "V", 0, 0, 70856, "X", 0, 0, 70864, "V", 0, 0,
      70874, "X", 0, 0, 71040, "V", 0, 0, 71094, "X", 0, 0, 71096, "V", 0, 0, 71134, "X", 0, 0,
      71168, "V", 0, 0, 71237, "X", 0, 0, 71248, "V", 0, 0, 71258, "X", 0, 0, 71264, "V", 0, 0,
      71277, "X", 0, 0, 71296, "V", 0, 0, 71354, "X", 0, 0, 71360, "V", 0, 0, 71370, "X", 0, 0,
      71424, "V", 0, 0, 71451, "X", 0, 0, 71453, "V", 0, 0, 71468, "X", 0, 0, 71472, "V", 0, 0,
      71495, "X", 0, 0, 71680, "V", 0, 0, 71740, "X", 0, 0, 71840, "M", 5719, 5719, 71841, "M",
      5720, 5720, 71842, "M", 5721, 5721, 71843, "M", 5722, 5722, 71844, "M", 5723, 5723, 71845,
      "M", 5724, 5724, 71846, "M", 5725, 5725, 71847, "M", 5726, 5726, 71848, "M", 5727, 5727,
      71849, "M", 5728, 5728, 71850, "M", 5729, 5729, 71851, "M", 5730, 5730, 71852, "M", 5731,
      5731, 71853, "M", 5732, 5732, 71854, "M", 5733, 5733, 71855, "M", 5734, 5734, 71856, "M",
      5735, 5735, 71857, "M", 5736, 5736, 71858, "M", 5737, 5737, 71859, "M", 5738, 5738, 71860,
      "M", 5739, 5739, 71861, "M", 5740, 5740, 71862, "M", 5741, 5741, 71863, "M", 5742, 5742,
      71864, "M", 5743, 5743, 71865, "M", 5744, 5744, 71866, "M", 5745, 5745, 71867, "M", 5746,
      5746, 71868, "M", 5747, 5747, 71869, "M", 5748, 5748, 71870, "M", 5749, 5749, 71871, "M",
      5750, 5750, 71872, "V", 0, 0, 71923, "X", 0, 0, 71935, "V", 0, 0, 71943, "X", 0, 0, 71945,
      "V", 0, 0, 71946, "X", 0, 0, 71948, "V", 0, 0, 71956, "X", 0, 0, 71957, "V", 0, 0, 71959, "X",
      0, 0, 71960, "V", 0, 0, 71990, "X", 0, 0, 71991, "V", 0, 0, 71993, "X", 0, 0, 71995, "V", 0,
      0, 72007, "X", 0, 0, 72016, "V", 0, 0, 72026, "X", 0, 0, 72096, "V", 0, 0, 72104, "X", 0, 0,
      72106, "V", 0, 0, 72152, "X", 0, 0, 72154, "V", 0, 0, 72165, "X", 0, 0, 72192, "V", 0, 0,
      72264, "X", 0, 0, 72272, "V", 0, 0, 72355, "X", 0, 0, 72368, "V", 0, 0, 72441, "X", 0, 0,
      72448, "V", 0, 0, 72458, "X", 0, 0, 72704, "V", 0, 0, 72713, "X", 0, 0, 72714, "V", 0, 0,
      72759, "X", 0, 0, 72760, "V", 0, 0, 72774, "X", 0, 0, 72784, "V", 0, 0, 72813, "X", 0, 0,
      72816, "V", 0, 0, 72848, "X", 0, 0, 72850, "V", 0, 0, 72872, "X", 0, 0, 72873, "V", 0, 0,
      72887, "X", 0, 0, 72960, "V", 0, 0, 72967, "X", 0, 0, 72968, "V", 0, 0, 72970, "X", 0, 0,
      72971, "V", 0, 0, 73015, "X", 0, 0, 73018, "V", 0, 0, 73019, "X", 0, 0, 73020, "V", 0, 0,
      73022, "X", 0, 0, 73023, "V", 0, 0, 73032, "X", 0, 0, 73040, "V", 0, 0, 73050, "X", 0, 0,
      73056, "V", 0, 0, 73062, "X", 0, 0, 73063, "V", 0, 0, 73065, "X", 0, 0, 73066, "V", 0, 0,
      73103, "X", 0, 0, 73104, "V", 0, 0, 73106, "X", 0, 0, 73107, "V", 0, 0, 73113, "X", 0, 0,
      73120, "V", 0, 0, 73130, "X", 0, 0, 73440, "V", 0, 0, 73465, "X", 0, 0, 73472, "V", 0, 0,
      73489, "X", 0, 0, 73490, "V", 0, 0, 73531, "X", 0, 0, 73534, "V", 0, 0, 73562, "X", 0, 0,
      73648, "V", 0, 0, 73649, "X", 0, 0, 73664, "V", 0, 0, 73714, "X", 0, 0, 73727, "V", 0, 0,
      74650, "X", 0, 0, 74752, "V", 0, 0, 74863, "X", 0, 0, 74864, "V", 0, 0, 74869, "X", 0, 0,
      74880, "V", 0, 0, 75076, "X", 0, 0, 77712, "V", 0, 0, 77811, "X", 0, 0, 77824, "V", 0, 0,
      78896, "X", 0, 0, 78912, "V", 0, 0, 78934, "X", 0, 0, 82944, "V", 0, 0, 83527, "X", 0, 0,
      92160, "V", 0, 0, 92729, "X", 0, 0, 92736, "V", 0, 0, 92767, "X", 0, 0, 92768, "V", 0, 0,
      92778, "X", 0, 0, 92782, "V", 0, 0, 92863, "X", 0, 0, 92864, "V", 0, 0, 92874, "X", 0, 0,
      92880, "V", 0, 0, 92910, "X", 0, 0, 92912, "V", 0, 0, 92918, "X", 0, 0, 92928, "V", 0, 0,
      92998, "X", 0, 0, 93008, "V", 0, 0, 93018, "X", 0, 0, 93019, "V", 0, 0, 93026, "X", 0, 0,
      93027, "V", 0, 0, 93048, "X", 0, 0, 93053, "V", 0, 0, 93072, "X", 0, 0, 93760, "M", 5751,
      5751, 93761, "M", 5752, 5752, 93762, "M", 5753, 5753, 93763, "M", 5754, 5754, 93764, "M",
      5755, 5755, 93765, "M", 5756, 5756, 93766, "M", 5757, 5757, 93767, "M", 5758, 5758, 93768,
      "M", 5759, 5759, 93769, "M", 5760, 5760, 93770, "M", 5761, 5761, 93771, "M", 5762, 5762,
      93772, "M", 5763, 5763, 93773, "M", 5764, 5764, 93774, "M", 5765, 5765, 93775, "M", 5766,
      5766, 93776, "M", 5767, 5767, 93777, "M", 5768, 5768, 93778, "M", 5769, 5769, 93779, "M",
      5770, 5770, 93780, "M", 5771, 5771, 93781, "M", 5772, 5772, 93782, "M", 5773, 5773, 93783,
      "M", 5774, 5774, 93784, "M", 5775, 5775, 93785, "M", 5776, 5776, 93786, "M", 5777, 5777,
      93787, "M", 5778, 5778, 93788, "M", 5779, 5779, 93789, "M", 5780, 5780, 93790, "M", 5781,
      5781, 93791, "M", 5782, 5782, 93792, "V", 0, 0, 93851, "X", 0, 0, 93952, "V", 0, 0, 94027,
      "X", 0, 0, 94031, "V", 0, 0, 94088, "X", 0, 0, 94095, "V", 0, 0, 94112, "X", 0, 0, 94176, "V",
      0, 0, 94181, "X", 0, 0, 94192, "V", 0, 0, 94194, "X", 0, 0, 94208, "V", 0, 0, 100344, "X", 0,
      0, 100352, "V", 0, 0, 101590, "X", 0, 0, 101632, "V", 0, 0, 101641, "X", 0, 0, 110576, "V", 0,
      0, 110580, "X", 0, 0, 110581, "V", 0, 0, 110588, "X", 0, 0, 110589, "V", 0, 0, 110591, "X", 0,
      0, 110592, "V", 0, 0, 110883, "X", 0, 0, 110898, "V", 0, 0, 110899, "X", 0, 0, 110928, "V", 0,
      0, 110931, "X", 0, 0, 110933, "V", 0, 0, 110934, "X", 0, 0, 110948, "V", 0, 0, 110952, "X", 0,
      0, 110960, "V", 0, 0, 111356, "X", 0, 0, 113664, "V", 0, 0, 113771, "X", 0, 0, 113776, "V", 0,
      0, 113789, "X", 0, 0, 113792, "V", 0, 0, 113801, "X", 0, 0, 113808, "V", 0, 0, 113818, "X", 0,
      0, 113820, "V", 0, 0, 113824, "I", 0, 0, 113828, "X", 0, 0, 118528, "V", 0, 0, 118574, "X", 0,
      0, 118576, "V", 0, 0, 118599, "X", 0, 0, 118608, "V", 0, 0, 118724, "X", 0, 0, 118784, "V", 0,
      0, 119030, "X", 0, 0, 119040, "V", 0, 0, 119079, "X", 0, 0, 119081, "V", 0, 0, 119134, "M",
      5783, 5784, 119135, "M", 5785, 5786, 119136, "M", 5787, 5789, 119137, "M", 5790, 5792, 119138,
      "M", 5793, 5795, 119139, "M", 5796, 5798, 119140, "M", 5799, 5801, 119141, "V", 0, 0, 119155,
      "X", 0, 0, 119163, "V", 0, 0, 119227, "M", 5802, 5803, 119228, "M", 5804, 5805, 119229, "M",
      5806, 5808, 119230, "M", 5809, 5811, 119231, "M", 5812, 5814, 119232, "M", 5815, 5817, 119233,
      "V", 0, 0, 119275, "X", 0, 0, 119296, "V", 0, 0, 119366, "X", 0, 0, 119488, "V", 0, 0, 119508,
      "X", 0, 0, 119520, "V", 0, 0, 119540, "X", 0, 0, 119552, "V", 0, 0, 119639, "X", 0, 0, 119648,
      "V", 0, 0, 119673, "X", 0, 0, 119808, "M", 5818, 5818, 119809, "M", 5819, 5819, 119810, "M",
      5820, 5820, 119811, "M", 5821, 5821, 119812, "M", 5822, 5822, 119813, "M", 5823, 5823, 119814,
      "M", 5824, 5824, 119815, "M", 5825, 5825, 119816, "M", 5826, 5826, 119817, "M", 5827, 5827,
      119818, "M", 5828, 5828, 119819, "M", 5829, 5829, 119820, "M", 5830, 5830, 119821, "M", 5831,
      5831, 119822, "M", 5832, 5832, 119823, "M", 5833, 5833, 119824, "M", 5834, 5834, 119825, "M",
      5835, 5835, 119826, "M", 5836, 5836, 119827, "M", 5837, 5837, 119828, "M", 5838, 5838, 119829,
      "M", 5839, 5839, 119830, "M", 5840, 5840, 119831, "M", 5841, 5841, 119832, "M", 5842, 5842,
      119833, "M", 5843, 5843, 119834, "M", 5844, 5844, 119835, "M", 5845, 5845, 119836, "M", 5846,
      5846, 119837, "M", 5847, 5847, 119838, "M", 5848, 5848, 119839, "M", 5849, 5849, 119840, "M",
      5850, 5850, 119841, "M", 5851, 5851, 119842, "M", 5852, 5852, 119843, "M", 5853, 5853, 119844,
      "M", 5854, 5854, 119845, "M", 5855, 5855, 119846, "M", 5856, 5856, 119847, "M", 5857, 5857,
      119848, "M", 5858, 5858, 119849, "M", 5859, 5859, 119850, "M", 5860, 5860, 119851, "M", 5861,
      5861, 119852, "M", 5862, 5862, 119853, "M", 5863, 5863, 119854, "M", 5864, 5864, 119855, "M",
      5865, 5865, 119856, "M", 5866, 5866, 119857, "M", 5867, 5867, 119858, "M", 5868, 5868, 119859,
      "M", 5869, 5869, 119860, "M", 5870, 5870, 119861, "M", 5871, 5871, 119862, "M", 5872, 5872,
      119863, "M", 5873, 5873, 119864, "M", 5874, 5874, 119865, "M", 5875, 5875, 119866, "M", 5876,
      5876, 119867, "M", 5877, 5877, 119868, "M", 5878, 5878, 119869, "M", 5879, 5879, 119870, "M",
      5880, 5880, 119871, "M", 5881, 5881, 119872, "M", 5882, 5882, 119873, "M", 5883, 5883, 119874,
      "M", 5884, 5884, 119875, "M", 5885, 5885, 119876, "M", 5886, 5886, 119877, "M", 5887, 5887,
      119878, "M", 5888, 5888, 119879, "M", 5889, 5889, 119880, "M", 5890, 5890, 119881, "M", 5891,
      5891, 119882, "M", 5892, 5892, 119883, "M", 5893, 5893, 119884, "M", 5894, 5894, 119885, "M",
      5895, 5895, 119886, "M", 5896, 5896, 119887, "M", 5897, 5897, 119888, "M", 5898, 5898, 119889,
      "M", 5899, 5899, 119890, "M", 5900, 5900, 119891, "M", 5901, 5901, 119892, "M", 5902, 5902,
      119893, "X", 0, 0, 119894, "M", 5903, 5903, 119895, "M", 5904, 5904, 119896, "M", 5905, 5905,
      119897, "M", 5906, 5906, 119898, "M", 5907, 5907, 119899, "M", 5908, 5908, 119900, "M", 5909,
      5909, 119901, "M", 5910, 5910, 119902, "M", 5911, 5911, 119903, "M", 5912, 5912, 119904, "M",
      5913, 5913, 119905, "M", 5914, 5914, 119906, "M", 5915, 5915, 119907, "M", 5916, 5916, 119908,
      "M", 5917, 5917, 119909, "M", 5918, 5918, 119910, "M", 5919, 5919, 119911, "M", 5920, 5920,
      119912, "M", 5921, 5921, 119913, "M", 5922, 5922, 119914, "M", 5923, 5923, 119915, "M", 5924,
      5924, 119916, "M", 5925, 5925, 119917, "M", 5926, 5926, 119918, "M", 5927, 5927, 119919, "M",
      5928, 5928, 119920, "M", 5929, 5929, 119921, "M", 5930, 5930, 119922, "M", 5931, 5931, 119923,
      "M", 5932, 5932, 119924, "M", 5933, 5933, 119925, "M", 5934, 5934, 119926, "M", 5935, 5935,
      119927, "M", 5936, 5936, 119928, "M", 5937, 5937, 119929, "M", 5938, 5938, 119930, "M", 5939,
      5939, 119931, "M", 5940, 5940, 119932, "M", 5941, 5941, 119933, "M", 5942, 5942, 119934, "M",
      5943, 5943, 119935, "M", 5944, 5944, 119936, "M", 5945, 5945, 119937, "M", 5946, 5946, 119938,
      "M", 5947, 5947, 119939, "M", 5948, 5948, 119940, "M", 5949, 5949, 119941, "M", 5950, 5950,
      119942, "M", 5951, 5951, 119943, "M", 5952, 5952, 119944, "M", 5953, 5953, 119945, "M", 5954,
      5954, 119946, "M", 5955, 5955, 119947, "M", 5956, 5956, 119948, "M", 5957, 5957, 119949, "M",
      5958, 5958, 119950, "M", 5959, 5959, 119951, "M", 5960, 5960, 119952, "M", 5961, 5961, 119953,
      "M", 5962, 5962, 119954, "M", 5963, 5963, 119955, "M", 5964, 5964, 119956, "M", 5965, 5965,
      119957, "M", 5966, 5966, 119958, "M", 5967, 5967, 119959, "M", 5968, 5968, 119960, "M", 5969,
      5969, 119961, "M", 5970, 5970, 119962, "M", 5971, 5971, 119963, "M", 5972, 5972, 119964, "M",
      5973, 5973, 119965, "X", 0, 0, 119966, "M", 5974, 5974, 119967, "M", 5975, 5975, 119968, "X",
      0, 0, 119970, "M", 5976, 5976, 119971, "X", 0, 0, 119973, "M", 5977, 5977, 119974, "M", 5978,
      5978, 119975, "X", 0, 0, 119977, "M", 5979, 5979, 119978, "M", 5980, 5980, 119979, "M", 5981,
      5981, 119980, "M", 5982, 5982, 119981, "X", 0, 0, 119982, "M", 5983, 5983, 119983, "M", 5984,
      5984, 119984, "M", 5985, 5985, 119985, "M", 5986, 5986, 119986, "M", 5987, 5987, 119987, "M",
      5988, 5988, 119988, "M", 5989, 5989, 119989, "M", 5990, 5990, 119990, "M", 5991, 5991, 119991,
      "M", 5992, 5992, 119992, "M", 5993, 5993, 119993, "M", 5994, 5994, 119994, "X", 0, 0, 119995,
      "M", 5995, 5995, 119996, "X", 0, 0, 119997, "M", 5996, 5996, 119998, "M", 5997, 5997, 119999,
      "M", 5998, 5998, 120000, "M", 5999, 5999, 120001, "M", 6000, 6000, 120002, "M", 6001, 6001,
      120003, "M", 6002, 6002, 120004, "X", 0, 0, 120005, "M", 6003, 6003, 120006, "M", 6004, 6004,
      120007, "M", 6005, 6005, 120008, "M", 6006, 6006, 120009, "M", 6007, 6007, 120010, "M", 6008,
      6008, 120011, "M", 6009, 6009, 120012, "M", 6010, 6010, 120013, "M", 6011, 6011, 120014, "M",
      6012, 6012, 120015, "M", 6013, 6013, 120016, "M", 6014, 6014, 120017, "M", 6015, 6015, 120018,
      "M", 6016, 6016, 120019, "M", 6017, 6017, 120020, "M", 6018, 6018, 120021, "M", 6019, 6019,
      120022, "M", 6020, 6020, 120023, "M", 6021, 6021, 120024, "M", 6022, 6022, 120025, "M", 6023,
      6023, 120026, "M", 6024, 6024, 120027, "M", 6025, 6025, 120028, "M", 6026, 6026, 120029, "M",
      6027, 6027, 120030, "M", 6028, 6028, 120031, "M", 6029, 6029, 120032, "M", 6030, 6030, 120033,
      "M", 6031, 6031, 120034, "M", 6032, 6032, 120035, "M", 6033, 6033, 120036, "M", 6034, 6034,
      120037, "M", 6035, 6035, 120038, "M", 6036, 6036, 120039, "M", 6037, 6037, 120040, "M", 6038,
      6038, 120041, "M", 6039, 6039, 120042, "M", 6040, 6040, 120043, "M", 6041, 6041, 120044, "M",
      6042, 6042, 120045, "M", 6043, 6043, 120046, "M", 6044, 6044, 120047, "M", 6045, 6045, 120048,
      "M", 6046, 6046, 120049, "M", 6047, 6047, 120050, "M", 6048, 6048, 120051, "M", 6049, 6049,
      120052, "M", 6050, 6050, 120053, "M", 6051, 6051, 120054, "M", 6052, 6052, 120055, "M", 6053,
      6053, 120056, "M", 6054, 6054, 120057, "M", 6055, 6055, 120058, "M", 6056, 6056, 120059, "M",
      6057, 6057, 120060, "M", 6058, 6058, 120061, "M", 6059, 6059, 120062, "M", 6060, 6060, 120063,
      "M", 6061, 6061, 120064, "M", 6062, 6062, 120065, "M", 6063, 6063, 120066, "M", 6064, 6064,
      120067, "M", 6065, 6065, 120068, "M", 6066, 6066, 120069, "M", 6067, 6067, 120070, "X", 0, 0,
      120071, "M", 6068, 6068, 120072, "M", 6069, 6069, 120073, "M", 6070, 6070, 120074, "M", 6071,
      6071, 120075, "X", 0, 0, 120077, "M", 6072, 6072, 120078, "M", 6073, 6073, 120079, "M", 6074,
      6074, 120080, "M", 6075, 6075, 120081, "M", 6076, 6076, 120082, "M", 6077, 6077, 120083, "M",
      6078, 6078, 120084, "M", 6079, 6079, 120085, "X", 0, 0, 120086, "M", 6080, 6080, 120087, "M",
      6081, 6081, 120088, "M", 6082, 6082, 120089, "M", 6083, 6083, 120090, "M", 6084, 6084, 120091,
      "M", 6085, 6085, 120092, "M", 6086, 6086, 120093, "X", 0, 0, 120094, "M", 6087, 6087, 120095,
      "M", 6088, 6088, 120096, "M", 6089, 6089, 120097, "M", 6090, 6090, 120098, "M", 6091, 6091,
      120099, "M", 6092, 6092, 120100, "M", 6093, 6093, 120101, "M", 6094, 6094, 120102, "M", 6095,
      6095, 120103, "M", 6096, 6096, 120104, "M", 6097, 6097, 120105, "M", 6098, 6098, 120106, "M",
      6099, 6099, 120107, "M", 6100, 6100, 120108, "M", 6101, 6101, 120109, "M", 6102, 6102, 120110,
      "M", 6103, 6103, 120111, "M", 6104, 6104, 120112, "M", 6105, 6105, 120113, "M", 6106, 6106,
      120114, "M", 6107, 6107, 120115, "M", 6108, 6108, 120116, "M", 6109, 6109, 120117, "M", 6110,
      6110, 120118, "M", 6111, 6111, 120119, "M", 6112, 6112, 120120, "M", 6113, 6113, 120121, "M",
      6114, 6114, 120122, "X", 0, 0, 120123, "M", 6115, 6115, 120124, "M", 6116, 6116, 120125, "M",
      6117, 6117, 120126, "M", 6118, 6118, 120127, "X", 0, 0, 120128, "M", 6119, 6119, 120129, "M",
      6120, 6120, 120130, "M", 6121, 6121, 120131, "M", 6122, 6122, 120132, "M", 6123, 6123, 120133,
      "X", 0, 0, 120134, "M", 6124, 6124, 120135, "X", 0, 0, 120138, "M", 6125, 6125, 120139, "M",
      6126, 6126, 120140, "M", 6127, 6127, 120141, "M", 6128, 6128, 120142, "M", 6129, 6129, 120143,
      "M", 6130, 6130, 120144, "M", 6131, 6131, 120145, "X", 0, 0, 120146, "M", 6132, 6132, 120147,
      "M", 6133, 6133, 120148, "M", 6134, 6134, 120149, "M", 6135, 6135, 120150, "M", 6136, 6136,
      120151, "M", 6137, 6137, 120152, "M", 6138, 6138, 120153, "M", 6139, 6139, 120154, "M", 6140,
      6140, 120155, "M", 6141, 6141, 120156, "M", 6142, 6142, 120157, "M", 6143, 6143, 120158, "M",
      6144, 6144, 120159, "M", 6145, 6145, 120160, "M", 6146, 6146, 120161, "M", 6147, 6147, 120162,
      "M", 6148, 6148, 120163, "M", 6149, 6149, 120164, "M", 6150, 6150, 120165, "M", 6151, 6151,
      120166, "M", 6152, 6152, 120167, "M", 6153, 6153, 120168, "M", 6154, 6154, 120169, "M", 6155,
      6155, 120170, "M", 6156, 6156, 120171, "M", 6157, 6157, 120172, "M", 6158, 6158, 120173, "M",
      6159, 6159, 120174, "M", 6160, 6160, 120175, "M", 6161, 6161, 120176, "M", 6162, 6162, 120177,
      "M", 6163, 6163, 120178, "M", 6164, 6164, 120179, "M", 6165, 6165, 120180, "M", 6166, 6166,
      120181, "M", 6167, 6167, 120182, "M", 6168, 6168, 120183, "M", 6169, 6169, 120184, "M", 6170,
      6170, 120185, "M", 6171, 6171, 120186, "M", 6172, 6172, 120187, "M", 6173, 6173, 120188, "M",
      6174, 6174, 120189, "M", 6175, 6175, 120190, "M", 6176, 6176, 120191, "M", 6177, 6177, 120192,
      "M", 6178, 6178, 120193, "M", 6179, 6179, 120194, "M", 6180, 6180, 120195, "M", 6181, 6181,
      120196, "M", 6182, 6182, 120197, "M", 6183, 6183, 120198, "M", 6184, 6184, 120199, "M", 6185,
      6185, 120200, "M", 6186, 6186, 120201, "M", 6187, 6187, 120202, "M", 6188, 6188, 120203, "M",
      6189, 6189, 120204, "M", 6190, 6190, 120205, "M", 6191, 6191, 120206, "M", 6192, 6192, 120207,
      "M", 6193, 6193, 120208, "M", 6194, 6194, 120209, "M", 6195, 6195, 120210, "M", 6196, 6196,
      120211, "M", 6197, 6197, 120212, "M", 6198, 6198, 120213, "M", 6199, 6199, 120214, "M", 6200,
      6200, 120215, "M", 6201, 6201, 120216, "M", 6202, 6202, 120217, "M", 6203, 6203, 120218, "M",
      6204, 6204, 120219, "M", 6205, 6205, 120220, "M", 6206, 6206, 120221, "M", 6207, 6207, 120222,
      "M", 6208, 6208, 120223, "M", 6209, 6209, 120224, "M", 6210, 6210, 120225, "M", 6211, 6211,
      120226, "M", 6212, 6212, 120227, "M", 6213, 6213, 120228, "M", 6214, 6214, 120229, "M", 6215,
      6215, 120230, "M", 6216, 6216, 120231, "M", 6217, 6217, 120232, "M", 6218, 6218, 120233, "M",
      6219, 6219, 120234, "M", 6220, 6220, 120235, "M", 6221, 6221, 120236, "M", 6222, 6222, 120237,
      "M", 6223, 6223, 120238, "M", 6224, 6224, 120239, "M", 6225, 6225, 120240, "M", 6226, 6226,
      120241, "M", 6227, 6227, 120242, "M", 6228, 6228, 120243, "M", 6229, 6229, 120244, "M", 6230,
      6230, 120245, "M", 6231, 6231, 120246, "M", 6232, 6232, 120247, "M", 6233, 6233, 120248, "M",
      6234, 6234, 120249, "M", 6235, 6235, 120250, "M", 6236, 6236, 120251, "M", 6237, 6237, 120252,
      "M", 6238, 6238, 120253, "M", 6239, 6239, 120254, "M", 6240, 6240, 120255, "M", 6241, 6241,
      120256, "M", 6242, 6242, 120257, "M", 6243, 6243, 120258, "M", 6244, 6244, 120259, "M", 6245,
      6245, 120260, "M", 6246, 6246, 120261, "M", 6247, 6247, 120262, "M", 6248, 6248, 120263, "M",
      6249, 6249, 120264, "M", 6250, 6250, 120265, "M", 6251, 6251, 120266, "M", 6252, 6252, 120267,
      "M", 6253, 6253, 120268, "M", 6254, 6254, 120269, "M", 6255, 6255, 120270, "M", 6256, 6256,
      120271, "M", 6257, 6257, 120272, "M", 6258, 6258, 120273, "M", 6259, 6259, 120274, "M", 6260,
      6260, 120275, "M", 6261, 6261, 120276, "M", 6262, 6262, 120277, "M", 6263, 6263, 120278, "M",
      6264, 6264, 120279, "M", 6265, 6265, 120280, "M", 6266, 6266, 120281, "M", 6267, 6267, 120282,
      "M", 6268, 6268, 120283, "M", 6269, 6269, 120284, "M", 6270, 6270, 120285, "M", 6271, 6271,
      120286, "M", 6272, 6272, 120287, "M", 6273, 6273, 120288, "M", 6274, 6274, 120289, "M", 6275,
      6275, 120290, "M", 6276, 6276, 120291, "M", 6277, 6277, 120292, "M", 6278, 6278, 120293, "M",
      6279, 6279, 120294, "M", 6280, 6280, 120295, "M", 6281, 6281, 120296, "M", 6282, 6282, 120297,
      "M", 6283, 6283, 120298, "M", 6284, 6284, 120299, "M", 6285, 6285, 120300, "M", 6286, 6286,
      120301, "M", 6287, 6287, 120302, "M", 6288, 6288, 120303, "M", 6289, 6289, 120304, "M", 6290,
      6290, 120305, "M", 6291, 6291, 120306, "M", 6292, 6292, 120307, "M", 6293, 6293, 120308, "M",
      6294, 6294, 120309, "M", 6295, 6295, 120310, "M", 6296, 6296, 120311, "M", 6297, 6297, 120312,
      "M", 6298, 6298, 120313, "M", 6299, 6299, 120314, "M", 6300, 6300, 120315, "M", 6301, 6301,
      120316, "M", 6302, 6302, 120317, "M", 6303, 6303, 120318, "M", 6304, 6304, 120319, "M", 6305,
      6305, 120320, "M", 6306, 6306, 120321, "M", 6307, 6307, 120322, "M", 6308, 6308, 120323, "M",
      6309, 6309, 120324, "M", 6310, 6310, 120325, "M", 6311, 6311, 120326, "M", 6312, 6312, 120327,
      "M", 6313, 6313, 120328, "M", 6314, 6314, 120329, "M", 6315, 6315, 120330, "M", 6316, 6316,
      120331, "M", 6317, 6317, 120332, "M", 6318, 6318, 120333, "M", 6319, 6319, 120334, "M", 6320,
      6320, 120335, "M", 6321, 6321, 120336, "M", 6322, 6322, 120337, "M", 6323, 6323, 120338, "M",
      6324, 6324, 120339, "M", 6325, 6325, 120340, "M", 6326, 6326, 120341, "M", 6327, 6327, 120342,
      "M", 6328, 6328, 120343, "M", 6329, 6329, 120344, "M", 6330, 6330, 120345, "M", 6331, 6331,
      120346, "M", 6332, 6332, 120347, "M", 6333, 6333, 120348, "M", 6334, 6334, 120349, "M", 6335,
      6335, 120350, "M", 6336, 6336, 120351, "M", 6337, 6337, 120352, "M", 6338, 6338, 120353, "M",
      6339, 6339, 120354, "M", 6340, 6340, 120355, "M", 6341, 6341, 120356, "M", 6342, 6342, 120357,
      "M", 6343, 6343, 120358, "M", 6344, 6344, 120359, "M", 6345, 6345, 120360, "M", 6346, 6346,
      120361, "M", 6347, 6347, 120362, "M", 6348, 6348, 120363, "M", 6349, 6349, 120364, "M", 6350,
      6350, 120365, "M", 6351, 6351, 120366, "M", 6352, 6352, 120367, "M", 6353, 6353, 120368, "M",
      6354, 6354, 120369, "M", 6355, 6355, 120370, "M", 6356, 6356, 120371, "M", 6357, 6357, 120372,
      "M", 6358, 6358, 120373, "M", 6359, 6359, 120374, "M", 6360, 6360, 120375, "M", 6361, 6361,
      120376, "M", 6362, 6362, 120377, "M", 6363, 6363, 120378, "M", 6364, 6364, 120379, "M", 6365,
      6365, 120380, "M", 6366, 6366, 120381, "M", 6367, 6367, 120382, "M", 6368, 6368, 120383, "M",
      6369, 6369, 120384, "M", 6370, 6370, 120385, "M", 6371, 6371, 120386, "M", 6372, 6372, 120387,
      "M", 6373, 6373, 120388, "M", 6374, 6374, 120389, "M", 6375, 6375, 120390, "M", 6376, 6376,
      120391, "M", 6377, 6377, 120392, "M", 6378, 6378, 120393, "M", 6379, 6379, 120394, "M", 6380,
      6380, 120395, "M", 6381, 6381, 120396, "M", 6382, 6382, 120397, "M", 6383, 6383, 120398, "M",
      6384, 6384, 120399, "M", 6385, 6385, 120400, "M", 6386, 6386, 120401, "M", 6387, 6387, 120402,
      "M", 6388, 6388, 120403, "M", 6389, 6389, 120404, "M", 6390, 6390, 120405, "M", 6391, 6391,
      120406, "M", 6392, 6392, 120407, "M", 6393, 6393, 120408, "M", 6394, 6394, 120409, "M", 6395,
      6395, 120410, "M", 6396, 6396, 120411, "M", 6397, 6397, 120412, "M", 6398, 6398, 120413, "M",
      6399, 6399, 120414, "M", 6400, 6400, 120415, "M", 6401, 6401, 120416, "M", 6402, 6402, 120417,
      "M", 6403, 6403, 120418, "M", 6404, 6404, 120419, "M", 6405, 6405, 120420, "M", 6406, 6406,
      120421, "M", 6407, 6407, 120422, "M", 6408, 6408, 120423, "M", 6409, 6409, 120424, "M", 6410,
      6410, 120425, "M", 6411, 6411, 120426, "M", 6412, 6412, 120427, "M", 6413, 6413, 120428, "M",
      6414, 6414, 120429, "M", 6415, 6415, 120430, "M", 6416, 6416, 120431, "M", 6417, 6417, 120432,
      "M", 6418, 6418, 120433, "M", 6419, 6419, 120434, "M", 6420, 6420, 120435, "M", 6421, 6421,
      120436, "M", 6422, 6422, 120437, "M", 6423, 6423, 120438, "M", 6424, 6424, 120439, "M", 6425,
      6425, 120440, "M", 6426, 6426, 120441, "M", 6427, 6427, 120442, "M", 6428, 6428, 120443, "M",
      6429, 6429, 120444, "M", 6430, 6430, 120445, "M", 6431, 6431, 120446, "M", 6432, 6432, 120447,
      "M", 6433, 6433, 120448, "M", 6434, 6434, 120449, "M", 6435, 6435, 120450, "M", 6436, 6436,
      120451, "M", 6437, 6437, 120452, "M", 6438, 6438, 120453, "M", 6439, 6439, 120454, "M", 6440,
      6440, 120455, "M", 6441, 6441, 120456, "M", 6442, 6442, 120457, "M", 6443, 6443, 120458, "M",
      6444, 6444, 120459, "M", 6445, 6445, 120460, "M", 6446, 6446, 120461, "M", 6447, 6447, 120462,
      "M", 6448, 6448, 120463, "M", 6449, 6449, 120464, "M", 6450, 6450, 120465, "M", 6451, 6451,
      120466, "M", 6452, 6452, 120467, "M", 6453, 6453, 120468, "M", 6454, 6454, 120469, "M", 6455,
      6455, 120470, "M", 6456, 6456, 120471, "M", 6457, 6457, 120472, "M", 6458, 6458, 120473, "M",
      6459, 6459, 120474, "M", 6460, 6460, 120475, "M", 6461, 6461, 120476, "M", 6462, 6462, 120477,
      "M", 6463, 6463, 120478, "M", 6464, 6464, 120479, "M", 6465, 6465, 120480, "M", 6466, 6466,
      120481, "M", 6467, 6467, 120482, "M", 6468, 6468, 120483, "M", 6469, 6469, 120484, "M", 6470,
      6470, 120485, "M", 6471, 6471, 120486, "X", 0, 0, 120488, "M", 6472, 6472, 120489, "M", 6473,
      6473, 120490, "M", 6474, 6474, 120491, "M", 6475, 6475, 120492, "M", 6476, 6476, 120493, "M",
      6477, 6477, 120494, "M", 6478, 6478, 120495, "M", 6479, 6479, 120496, "M", 6480, 6480, 120497,
      "M", 6481, 6481, 120498, "M", 6482, 6482, 120499, "M", 6483, 6483, 120500, "M", 6484, 6484,
      120501, "M", 6485, 6485, 120502, "M", 6486, 6486, 120503, "M", 6487, 6487, 120504, "M", 6488,
      6488, 120505, "M", 6489, 6489, 120506, "M", 6490, 6490, 120507, "M", 6491, 6491, 120508, "M",
      6492, 6492, 120509, "M", 6493, 6493, 120510, "M", 6494, 6494, 120511, "M", 6495, 6495, 120512,
      "M", 6496, 6496, 120513, "M", 6497, 6497, 120514, "M", 6498, 6498, 120515, "M", 6499, 6499,
      120516, "M", 6500, 6500, 120517, "M", 6501, 6501, 120518, "M", 6502, 6502, 120519, "M", 6503,
      6503, 120520, "M", 6504, 6504, 120521, "M", 6505, 6505, 120522, "M", 6506, 6506, 120523, "M",
      6507, 6507, 120524, "M", 6508, 6508, 120525, "M", 6509, 6509, 120526, "M", 6510, 6510, 120527,
      "M", 6511, 6511, 120528, "M", 6512, 6512, 120529, "M", 6513, 6513, 120530, "M", 6514, 6514,
      120531, "M", 6515, 6515, 120533, "M", 6516, 6516, 120534, "M", 6517, 6517, 120535, "M", 6518,
      6518, 120536, "M", 6519, 6519, 120537, "M", 6520, 6520, 120538, "M", 6521, 6521, 120539, "M",
      6522, 6522, 120540, "M", 6523, 6523, 120541, "M", 6524, 6524, 120542, "M", 6525, 6525, 120543,
      "M", 6526, 6526, 120544, "M", 6527, 6527, 120545, "M", 6528, 6528, 120546, "M", 6529, 6529,
      120547, "M", 6530, 6530, 120548, "M", 6531, 6531, 120549, "M", 6532, 6532, 120550, "M", 6533,
      6533, 120551, "M", 6534, 6534, 120552, "M", 6535, 6535, 120553, "M", 6536, 6536, 120554, "M",
      6537, 6537, 120555, "M", 6538, 6538, 120556, "M", 6539, 6539, 120557, "M", 6540, 6540, 120558,
      "M", 6541, 6541, 120559, "M", 6542, 6542, 120560, "M", 6543, 6543, 120561, "M", 6544, 6544,
      120562, "M", 6545, 6545, 120563, "M", 6546, 6546, 120564, "M", 6547, 6547, 120565, "M", 6548,
      6548, 120566, "M", 6549, 6549, 120567, "M", 6550, 6550, 120568, "M", 6551, 6551, 120569, "M",
      6552, 6552, 120570, "M", 6553, 6553, 120571, "M", 6554, 6554, 120572, "M", 6555, 6555, 120573,
      "M", 6556, 6556, 120574, "M", 6557, 6557, 120575, "M", 6558, 6558, 120576, "M", 6559, 6559,
      120577, "M", 6560, 6560, 120578, "M", 6561, 6561, 120579, "M", 6562, 6562, 120580, "M", 6563,
      6563, 120581, "M", 6564, 6564, 120582, "M", 6565, 6565, 120583, "M", 6566, 6566, 120584, "M",
      6567, 6567, 120585, "M", 6568, 6568, 120586, "M", 6569, 6569, 120587, "M", 6570, 6570, 120588,
      "M", 6571, 6571, 120589, "M", 6572, 6572, 120591, "M", 6573, 6573, 120592, "M", 6574, 6574,
      120593, "M", 6575, 6575, 120594, "M", 6576, 6576, 120595, "M", 6577, 6577, 120596, "M", 6578,
      6578, 120597, "M", 6579, 6579, 120598, "M", 6580, 6580, 120599, "M", 6581, 6581, 120600, "M",
      6582, 6582, 120601, "M", 6583, 6583, 120602, "M", 6584, 6584, 120603, "M", 6585, 6585, 120604,
      "M", 6586, 6586, 120605, "M", 6587, 6587, 120606, "M", 6588, 6588, 120607, "M", 6589, 6589,
      120608, "M", 6590, 6590, 120609, "M", 6591, 6591, 120610, "M", 6592, 6592, 120611, "M", 6593,
      6593, 120612, "M", 6594, 6594, 120613, "M", 6595, 6595, 120614, "M", 6596, 6596, 120615, "M",
      6597, 6597, 120616, "M", 6598, 6598, 120617, "M", 6599, 6599, 120618, "M", 6600, 6600, 120619,
      "M", 6601, 6601, 120620, "M", 6602, 6602, 120621, "M", 6603, 6603, 120622, "M", 6604, 6604,
      120623, "M", 6605, 6605, 120624, "M", 6606, 6606, 120625, "M", 6607, 6607, 120626, "M", 6608,
      6608, 120627, "M", 6609, 6609, 120628, "M", 6610, 6610, 120629, "M", 6611, 6611, 120630, "M",
      6612, 6612, 120631, "M", 6613, 6613, 120632, "M", 6614, 6614, 120633, "M", 6615, 6615, 120634,
      "M", 6616, 6616, 120635, "M", 6617, 6617, 120636, "M", 6618, 6618, 120637, "M", 6619, 6619,
      120638, "M", 6620, 6620, 120639, "M", 6621, 6621, 120640, "M", 6622, 6622, 120641, "M", 6623,
      6623, 120642, "M", 6624, 6624, 120643, "M", 6625, 6625, 120644, "M", 6626, 6626, 120645, "M",
      6627, 6627, 120646, "M", 6628, 6628, 120647, "M", 6629, 6629, 120649, "M", 6630, 6630, 120650,
      "M", 6631, 6631, 120651, "M", 6632, 6632, 120652, "M", 6633, 6633, 120653, "M", 6634, 6634,
      120654, "M", 6635, 6635, 120655, "M", 6636, 6636, 120656, "M", 6637, 6637, 120657, "M", 6638,
      6638, 120658, "M", 6639, 6639, 120659, "M", 6640, 6640, 120660, "M", 6641, 6641, 120661, "M",
      6642, 6642, 120662, "M", 6643, 6643, 120663, "M", 6644, 6644, 120664, "M", 6645, 6645, 120665,
      "M", 6646, 6646, 120666, "M", 6647, 6647, 120667, "M", 6648, 6648, 120668, "M", 6649, 6649,
      120669, "M", 6650, 6650, 120670, "M", 6651, 6651, 120671, "M", 6652, 6652, 120672, "M", 6653,
      6653, 120673, "M", 6654, 6654, 120674, "M", 6655, 6655, 120675, "M", 6656, 6656, 120676, "M",
      6657, 6657, 120677, "M", 6658, 6658, 120678, "M", 6659, 6659, 120679, "M", 6660, 6660, 120680,
      "M", 6661, 6661, 120681, "M", 6662, 6662, 120682, "M", 6663, 6663, 120683, "M", 6664, 6664,
      120684, "M", 6665, 6665, 120685, "M", 6666, 6666, 120686, "M", 6667, 6667, 120687, "M", 6668,
      6668, 120688, "M", 6669, 6669, 120689, "M", 6670, 6670, 120690, "M", 6671, 6671, 120691, "M",
      6672, 6672, 120692, "M", 6673, 6673, 120693, "M", 6674, 6674, 120694, "M", 6675, 6675, 120695,
      "M", 6676, 6676, 120696, "M", 6677, 6677, 120697, "M", 6678, 6678, 120698, "M", 6679, 6679,
      120699, "M", 6680, 6680, 120700, "M", 6681, 6681, 120701, "M", 6682, 6682, 120702, "M", 6683,
      6683, 120703, "M", 6684, 6684, 120704, "M", 6685, 6685, 120705, "M", 6686, 6686, 120707, "M",
      6687, 6687, 120708, "M", 6688, 6688, 120709, "M", 6689, 6689, 120710, "M", 6690, 6690, 120711,
      "M", 6691, 6691, 120712, "M", 6692, 6692, 120713, "M", 6693, 6693, 120714, "M", 6694, 6694,
      120715, "M", 6695, 6695, 120716, "M", 6696, 6696, 120717, "M", 6697, 6697, 120718, "M", 6698,
      6698, 120719, "M", 6699, 6699, 120720, "M", 6700, 6700, 120721, "M", 6701, 6701, 120722, "M",
      6702, 6702, 120723, "M", 6703, 6703, 120724, "M", 6704, 6704, 120725, "M", 6705, 6705, 120726,
      "M", 6706, 6706, 120727, "M", 6707, 6707, 120728, "M", 6708, 6708, 120729, "M", 6709, 6709,
      120730, "M", 6710, 6710, 120731, "M", 6711, 6711, 120732, "M", 6712, 6712, 120733, "M", 6713,
      6713, 120734, "M", 6714, 6714, 120735, "M", 6715, 6715, 120736, "M", 6716, 6716, 120737, "M",
      6717, 6717, 120738, "M", 6718, 6718, 120739, "M", 6719, 6719, 120740, "M", 6720, 6720, 120741,
      "M", 6721, 6721, 120742, "M", 6722, 6722, 120743, "M", 6723, 6723, 120744, "M", 6724, 6724,
      120745, "M", 6725, 6725, 120746, "M", 6726, 6726, 120747, "M", 6727, 6727, 120748, "M", 6728,
      6728, 120749, "M", 6729, 6729, 120750, "M", 6730, 6730, 120751, "M", 6731, 6731, 120752, "M",
      6732, 6732, 120753, "M", 6733, 6733, 120754, "M", 6734, 6734, 120755, "M", 6735, 6735, 120756,
      "M", 6736, 6736, 120757, "M", 6737, 6737, 120758, "M", 6738, 6738, 120759, "M", 6739, 6739,
      120760, "M", 6740, 6740, 120761, "M", 6741, 6741, 120762, "M", 6742, 6742, 120763, "M", 6743,
      6743, 120765, "M", 6744, 6744, 120766, "M", 6745, 6745, 120767, "M", 6746, 6746, 120768, "M",
      6747, 6747, 120769, "M", 6748, 6748, 120770, "M", 6749, 6749, 120771, "M", 6750, 6750, 120772,
      "M", 6751, 6751, 120773, "M", 6752, 6752, 120774, "M", 6753, 6753, 120775, "M", 6754, 6754,
      120776, "M", 6755, 6755, 120777, "M", 6756, 6756, 120778, "M", 6757, 6757, 120780, "X", 0, 0,
      120782, "M", 6758, 6758, 120783, "M", 6759, 6759, 120784, "M", 6760, 6760, 120785, "M", 6761,
      6761, 120786, "M", 6762, 6762, 120787, "M", 6763, 6763, 120788, "M", 6764, 6764, 120789, "M",
      6765, 6765, 120790, "M", 6766, 6766, 120791, "M", 6767, 6767, 120792, "M", 6768, 6768, 120793,
      "M", 6769, 6769, 120794, "M", 6770, 6770, 120795, "M", 6771, 6771, 120796, "M", 6772, 6772,
      120797, "M", 6773, 6773, 120798, "M", 6774, 6774, 120799, "M", 6775, 6775, 120800, "M", 6776,
      6776, 120801, "M", 6777, 6777, 120802, "M", 6778, 6778, 120803, "M", 6779, 6779, 120804, "M",
      6780, 6780, 120805, "M", 6781, 6781, 120806, "M", 6782, 6782, 120807, "M", 6783, 6783, 120808,
      "M", 6784, 6784, 120809, "M", 6785, 6785, 120810, "M", 6786, 6786, 120811, "M", 6787, 6787,
      120812, "M", 6788, 6788, 120813, "M", 6789, 6789, 120814, "M", 6790, 6790, 120815, "M", 6791,
      6791, 120816, "M", 6792, 6792, 120817, "M", 6793, 6793, 120818, "M", 6794, 6794, 120819, "M",
      6795, 6795, 120820, "M", 6796, 6796, 120821, "M", 6797, 6797, 120822, "M", 6798, 6798, 120823,
      "M", 6799, 6799, 120824, "M", 6800, 6800, 120825, "M", 6801, 6801, 120826, "M", 6802, 6802,
      120827, "M", 6803, 6803, 120828, "M", 6804, 6804, 120829, "M", 6805, 6805, 120830, "M", 6806,
      6806, 120831, "M", 6807, 6807, 120832, "V", 0, 0, 121484, "X", 0, 0, 121499, "V", 0, 0,
      121504, "X", 0, 0, 121505, "V", 0, 0, 121520, "X", 0, 0, 122624, "V", 0, 0, 122655, "X", 0, 0,
      122661, "V", 0, 0, 122667, "X", 0, 0, 122880, "V", 0, 0, 122887, "X", 0, 0, 122888, "V", 0, 0,
      122905, "X", 0, 0, 122907, "V", 0, 0, 122914, "X", 0, 0, 122915, "V", 0, 0, 122917, "X", 0, 0,
      122918, "V", 0, 0, 122923, "X", 0, 0, 122928, "M", 6808, 6808, 122929, "M", 6809, 6809,
      122930, "M", 6810, 6810, 122931, "M", 6811, 6811, 122932, "M", 6812, 6812, 122933, "M", 6813,
      6813, 122934, "M", 6814, 6814, 122935, "M", 6815, 6815, 122936, "M", 6816, 6816, 122937, "M",
      6817, 6817, 122938, "M", 6818, 6818, 122939, "M", 6819, 6819, 122940, "M", 6820, 6820, 122941,
      "M", 6821, 6821, 122942, "M", 6822, 6822, 122943, "M", 6823, 6823, 122944, "M", 6824, 6824,
      122945, "M", 6825, 6825, 122946, "M", 6826, 6826, 122947, "M", 6827, 6827, 122948, "M", 6828,
      6828, 122949, "M", 6829, 6829, 122950, "M", 6830, 6830, 122951, "M", 6831, 6831, 122952, "M",
      6832, 6832, 122953, "M", 6833, 6833, 122954, "M", 6834, 6834, 122955, "M", 6835, 6835, 122956,
      "M", 6836, 6836, 122957, "M", 6837, 6837, 122958, "M", 6838, 6838, 122959, "M", 6839, 6839,
      122960, "M", 6840, 6840, 122961, "M", 6841, 6841, 122962, "M", 6842, 6842, 122963, "M", 6843,
      6843, 122964, "M", 6844, 6844, 122965, "M", 6845, 6845, 122966, "M", 6846, 6846, 122967, "M",
      6847, 6847, 122968, "M", 6848, 6848, 122969, "M", 6849, 6849, 122970, "M", 6850, 6850, 122971,
      "M", 6851, 6851, 122972, "M", 6852, 6852, 122973, "M", 6853, 6853, 122974, "M", 6854, 6854,
      122975, "M", 6855, 6855, 122976, "M", 6856, 6856, 122977, "M", 6857, 6857, 122978, "M", 6858,
      6858, 122979, "M", 6859, 6859, 122980, "M", 6860, 6860, 122981, "M", 6861, 6861, 122982, "M",
      6862, 6862, 122983, "M", 6863, 6863, 122984, "M", 6864, 6864, 122985, "M", 6865, 6865, 122986,
      "M", 6866, 6866, 122987, "M", 6867, 6867, 122988, "M", 6868, 6868, 122989, "M", 6869, 6869,
      122990, "X", 0, 0, 123023, "V", 0, 0, 123024, "X", 0, 0, 123136, "V", 0, 0, 123181, "X", 0, 0,
      123184, "V", 0, 0, 123198, "X", 0, 0, 123200, "V", 0, 0, 123210, "X", 0, 0, 123214, "V", 0, 0,
      123216, "X", 0, 0, 123536, "V", 0, 0, 123567, "X", 0, 0, 123584, "V", 0, 0, 123642, "X", 0, 0,
      123647, "V", 0, 0, 123648, "X", 0, 0, 124112, "V", 0, 0, 124154, "X", 0, 0, 124896, "V", 0, 0,
      124903, "X", 0, 0, 124904, "V", 0, 0, 124908, "X", 0, 0, 124909, "V", 0, 0, 124911, "X", 0, 0,
      124912, "V", 0, 0, 124927, "X", 0, 0, 124928, "V", 0, 0, 125125, "X", 0, 0, 125127, "V", 0, 0,
      125143, "X", 0, 0, 125184, "M", 6870, 6870, 125185, "M", 6871, 6871, 125186, "M", 6872, 6872,
      125187, "M", 6873, 6873, 125188, "M", 6874, 6874, 125189, "M", 6875, 6875, 125190, "M", 6876,
      6876, 125191, "M", 6877, 6877, 125192, "M", 6878, 6878, 125193, "M", 6879, 6879, 125194, "M",
      6880, 6880, 125195, "M", 6881, 6881, 125196, "M", 6882, 6882, 125197, "M", 6883, 6883, 125198,
      "M", 6884, 6884, 125199, "M", 6885, 6885, 125200, "M", 6886, 6886, 125201, "M", 6887, 6887,
      125202, "M", 6888, 6888, 125203, "M", 6889, 6889, 125204, "M", 6890, 6890, 125205, "M", 6891,
      6891, 125206, "M", 6892, 6892, 125207, "M", 6893, 6893, 125208, "M", 6894, 6894, 125209, "M",
      6895, 6895, 125210, "M", 6896, 6896, 125211, "M", 6897, 6897, 125212, "M", 6898, 6898, 125213,
      "M", 6899, 6899, 125214, "M", 6900, 6900, 125215, "M", 6901, 6901, 125216, "M", 6902, 6902,
      125217, "M", 6903, 6903, 125218, "V", 0, 0, 125260, "X", 0, 0, 125264, "V", 0, 0, 125274, "X",
      0, 0, 125278, "V", 0, 0, 125280, "X", 0, 0, 126065, "V", 0, 0, 126133, "X", 0, 0, 126209, "V",
      0, 0, 126270, "X", 0, 0, 126464, "M", 6904, 6904, 126465, "M", 6905, 6905, 126466, "M", 6906,
      6906, 126467, "M", 6907, 6907, 126468, "X", 0, 0, 126469, "M", 6908, 6908, 126470, "M", 6909,
      6909, 126471, "M", 6910, 6910, 126472, "M", 6911, 6911, 126473, "M", 6912, 6912, 126474, "M",
      6913, 6913, 126475, "M", 6914, 6914, 126476, "M", 6915, 6915, 126477, "M", 6916, 6916, 126478,
      "M", 6917, 6917, 126479, "M", 6918, 6918, 126480, "M", 6919, 6919, 126481, "M", 6920, 6920,
      126482, "M", 6921, 6921, 126483, "M", 6922, 6922, 126484, "M", 6923, 6923, 126485, "M", 6924,
      6924, 126486, "M", 6925, 6925, 126487, "M", 6926, 6926, 126488, "M", 6927, 6927, 126489, "M",
      6928, 6928, 126490, "M", 6929, 6929, 126491, "M", 6930, 6930, 126492, "M", 6931, 6931, 126493,
      "M", 6932, 6932, 126494, "M", 6933, 6933, 126495, "M", 6934, 6934, 126496, "X", 0, 0, 126497,
      "M", 6935, 6935, 126498, "M", 6936, 6936, 126499, "X", 0, 0, 126500, "M", 6937, 6937, 126501,
      "X", 0, 0, 126503, "M", 6938, 6938, 126504, "X", 0, 0, 126505, "M", 6939, 6939, 126506, "M",
      6940, 6940, 126507, "M", 6941, 6941, 126508, "M", 6942, 6942, 126509, "M", 6943, 6943, 126510,
      "M", 6944, 6944, 126511, "M", 6945, 6945, 126512, "M", 6946, 6946, 126513, "M", 6947, 6947,
      126514, "M", 6948, 6948, 126515, "X", 0, 0, 126516, "M", 6949, 6949, 126517, "M", 6950, 6950,
      126518, "M", 6951, 6951, 126519, "M", 6952, 6952, 126520, "X", 0, 0, 126521, "M", 6953, 6953,
      126522, "X", 0, 0, 126523, "M", 6954, 6954, 126524, "X", 0, 0, 126530, "M", 6955, 6955,
      126531, "X", 0, 0, 126535, "M", 6956, 6956, 126536, "X", 0, 0, 126537, "M", 6957, 6957,
      126538, "X", 0, 0, 126539, "M", 6958, 6958, 126540, "X", 0, 0, 126541, "M", 6959, 6959,
      126542, "M", 6960, 6960, 126543, "M", 6961, 6961, 126544, "X", 0, 0, 126545, "M", 6962, 6962,
      126546, "M", 6963, 6963, 126547, "X", 0, 0, 126548, "M", 6964, 6964, 126549, "X", 0, 0,
      126551, "M", 6965, 6965, 126552, "X", 0, 0, 126553, "M", 6966, 6966, 126554, "X", 0, 0,
      126555, "M", 6967, 6967, 126556, "X", 0, 0, 126557, "M", 6968, 6968, 126558, "X", 0, 0,
      126559, "M", 6969, 6969, 126560, "X", 0, 0, 126561, "M", 6970, 6970, 126562, "M", 6971, 6971,
      126563, "X", 0, 0, 126564, "M", 6972, 6972, 126565, "X", 0, 0, 126567, "M", 6973, 6973,
      126568, "M", 6974, 6974, 126569, "M", 6975, 6975, 126570, "M", 6976, 6976, 126571, "X", 0, 0,
      126572, "M", 6977, 6977, 126573, "M", 6978, 6978, 126574, "M", 6979, 6979, 126575, "M", 6980,
      6980, 126576, "M", 6981, 6981, 126577, "M", 6982, 6982, 126578, "M", 6983, 6983, 126579, "X",
      0, 0, 126580, "M", 6984, 6984, 126581, "M", 6985, 6985, 126582, "M", 6986, 6986, 126583, "M",
      6987, 6987, 126584, "X", 0, 0, 126585, "M", 6988, 6988, 126586, "M", 6989, 6989, 126587, "M",
      6990, 6990, 126588, "M", 6991, 6991, 126589, "X", 0, 0, 126590, "M", 6992, 6992, 126591, "X",
      0, 0, 126592, "M", 6993, 6993, 126593, "M", 6994, 6994, 126594, "M", 6995, 6995, 126595, "M",
      6996, 6996, 126596, "M", 6997, 6997, 126597, "M", 6998, 6998, 126598, "M", 6999, 6999, 126599,
      "M", 7000, 7000, 126600, "M", 7001, 7001, 126601, "M", 7002, 7002, 126602, "X", 0, 0, 126603,
      "M", 7003, 7003, 126604, "M", 7004, 7004, 126605, "M", 7005, 7005, 126606, "M", 7006, 7006,
      126607, "M", 7007, 7007, 126608, "M", 7008, 7008, 126609, "M", 7009, 7009, 126610, "M", 7010,
      7010, 126611, "M", 7011, 7011, 126612, "M", 7012, 7012, 126613, "M", 7013, 7013, 126614, "M",
      7014, 7014, 126615, "M", 7015, 7015, 126616, "M", 7016, 7016, 126617, "M", 7017, 7017, 126618,
      "M", 7018, 7018, 126619, "M", 7019, 7019, 126620, "X", 0, 0, 126625, "M", 7020, 7020, 126626,
      "M", 7021, 7021, 126627, "M", 7022, 7022, 126628, "X", 0, 0, 126629, "M", 7023, 7023, 126630,
      "M", 7024, 7024, 126631, "M", 7025, 7025, 126632, "M", 7026, 7026, 126633, "M", 7027, 7027,
      126634, "X", 0, 0, 126635, "M", 7028, 7028, 126636, "M", 7029, 7029, 126637, "M", 7030, 7030,
      126638, "M", 7031, 7031, 126639, "M", 7032, 7032, 126640, "M", 7033, 7033, 126641, "M", 7034,
      7034, 126642, "M", 7035, 7035, 126643, "M", 7036, 7036, 126644, "M", 7037, 7037, 126645, "M",
      7038, 7038, 126646, "M", 7039, 7039, 126647, "M", 7040, 7040, 126648, "M", 7041, 7041, 126649,
      "M", 7042, 7042, 126650, "M", 7043, 7043, 126651, "M", 7044, 7044, 126652, "X", 0, 0, 126704,
      "V", 0, 0, 126706, "X", 0, 0, 126976, "V", 0, 0, 127020, "X", 0, 0, 127024, "V", 0, 0, 127124,
      "X", 0, 0, 127136, "V", 0, 0, 127151, "X", 0, 0, 127153, "V", 0, 0, 127168, "X", 0, 0, 127169,
      "V", 0, 0, 127184, "X", 0, 0, 127185, "V", 0, 0, 127222, "X", 0, 0, 127233, "3", 7045, 7046,
      127234, "3", 7047, 7048, 127235, "3", 7049, 7050, 127236, "3", 7051, 7052, 127237, "3", 7053,
      7054, 127238, "3", 7055, 7056, 127239, "3", 7057, 7058, 127240, "3", 7059, 7060, 127241, "3",
      7061, 7062, 127242, "3", 7063, 7064, 127243, "V", 0, 0, 127248, "3", 7065, 7067, 127249, "3",
      7068, 7070, 127250, "3", 7071, 7073, 127251, "3", 7074, 7076, 127252, "3", 7077, 7079, 127253,
      "3", 7080, 7082, 127254, "3", 7083, 7085, 127255, "3", 7086, 7088, 127256, "3", 7089, 7091,
      127257, "3", 7092, 7094, 127258, "3", 7095, 7097, 127259, "3", 7098, 7100, 127260, "3", 7101,
      7103, 127261, "3", 7104, 7106, 127262, "3", 7107, 7109, 127263, "3", 7110, 7112, 127264, "3",
      7113, 7115, 127265, "3", 7116, 7118, 127266, "3", 7119, 7121, 127267, "3", 7122, 7124, 127268,
      "3", 7125, 7127, 127269, "3", 7128, 7130, 127270, "3", 7131, 7133, 127271, "3", 7134, 7136,
      127272, "3", 7137, 7139, 127273, "3", 7140, 7142, 127274, "M", 7143, 7145, 127275, "M", 7146,
      7146, 127276, "M", 7147, 7147, 127277, "M", 7148, 7149, 127278, "M", 7150, 7151, 127279, "V",
      0, 0, 127280, "M", 7152, 7152, 127281, "M", 7153, 7153, 127282, "M", 7154, 7154, 127283, "M",
      7155, 7155, 127284, "M", 7156, 7156, 127285, "M", 7157, 7157, 127286, "M", 7158, 7158, 127287,
      "M", 7159, 7159, 127288, "M", 7160, 7160, 127289, "M", 7161, 7161, 127290, "M", 7162, 7162,
      127291, "M", 7163, 7163, 127292, "M", 7164, 7164, 127293, "M", 7165, 7165, 127294, "M", 7166,
      7166, 127295, "M", 7167, 7167, 127296, "M", 7168, 7168, 127297, "M", 7169, 7169, 127298, "M",
      7170, 7170, 127299, "M", 7171, 7171, 127300, "M", 7172, 7172, 127301, "M", 7173, 7173, 127302,
      "M", 7174, 7174, 127303, "M", 7175, 7175, 127304, "M", 7176, 7176, 127305, "M", 7177, 7177,
      127306, "M", 7178, 7179, 127307, "M", 7180, 7181, 127308, "M", 7182, 7183, 127309, "M", 7184,
      7185, 127310, "M", 7186, 7188, 127311, "M", 7189, 7190, 127312, "V", 0, 0, 127338, "M", 7191,
      7192, 127339, "M", 7193, 7194, 127340, "M", 7195, 7196, 127341, "V", 0, 0, 127376, "M", 7197,
      7198, 127377, "V", 0, 0, 127406, "X", 0, 0, 127462, "V", 0, 0, 127488, "M", 7199, 7200,
      127489, "M", 7201, 7202, 127490, "M", 7203, 7203, 127491, "X", 0, 0, 127504, "M", 7204, 7204,
      127505, "M", 7205, 7205, 127506, "M", 7206, 7206, 127507, "M", 7207, 7207, 127508, "M", 7208,
      7208, 127509, "M", 7209, 7209, 127510, "M", 7210, 7210, 127511, "M", 7211, 7211, 127512, "M",
      7212, 7212, 127513, "M", 7213, 7213, 127514, "M", 7214, 7214, 127515, "M", 7215, 7215, 127516,
      "M", 7216, 7216, 127517, "M", 7217, 7217, 127518, "M", 7218, 7218, 127519, "M", 7219, 7219,
      127520, "M", 7220, 7220, 127521, "M", 7221, 7221, 127522, "M", 7222, 7222, 127523, "M", 7223,
      7223, 127524, "M", 7224, 7224, 127525, "M", 7225, 7225, 127526, "M", 7226, 7226, 127527, "M",
      7227, 7227, 127528, "M", 7228, 7228, 127529, "M", 7229, 7229, 127530, "M", 7230, 7230, 127531,
      "M", 7231, 7231, 127532, "M", 7232, 7232, 127533, "M", 7233, 7233, 127534, "M", 7234, 7234,
      127535, "M", 7235, 7235, 127536, "M", 7236, 7236, 127537, "M", 7237, 7237, 127538, "M", 7238,
      7238, 127539, "M", 7239, 7239, 127540, "M", 7240, 7240, 127541, "M", 7241, 7241, 127542, "M",
      7242, 7242, 127543, "M", 7243, 7243, 127544, "M", 7244, 7244, 127545, "M", 7245, 7245, 127546,
      "M", 7246, 7246, 127547, "M", 7247, 7247, 127548, "X", 0, 0, 127552, "M", 7248, 7250, 127553,
      "M", 7251, 7253, 127554, "M", 7254, 7256, 127555, "M", 7257, 7259, 127556, "M", 7260, 7262,
      127557, "M", 7263, 7265, 127558, "M", 7266, 7268, 127559, "M", 7269, 7271, 127560, "M", 7272,
      7274, 127561, "X", 0, 0, 127568, "M", 7275, 7275, 127569, "M", 7276, 7276, 127570, "X", 0, 0,
      127584, "V", 0, 0, 127590, "X", 0, 0, 127744, "V", 0, 0, 128728, "X", 0, 0, 128732, "V", 0, 0,
      128749, "X", 0, 0, 128752, "V", 0, 0, 128765, "X", 0, 0, 128768, "V", 0, 0, 128887, "X", 0, 0,
      128891, "V", 0, 0, 128986, "X", 0, 0, 128992, "V", 0, 0, 129004, "X", 0, 0, 129008, "V", 0, 0,
      129009, "X", 0, 0, 129024, "V", 0, 0, 129036, "X", 0, 0, 129040, "V", 0, 0, 129096, "X", 0, 0,
      129104, "V", 0, 0, 129114, "X", 0, 0, 129120, "V", 0, 0, 129160, "X", 0, 0, 129168, "V", 0, 0,
      129198, "X", 0, 0, 129200, "V", 0, 0, 129202, "X", 0, 0, 129280, "V", 0, 0, 129620, "X", 0, 0,
      129632, "V", 0, 0, 129646, "X", 0, 0, 129648, "V", 0, 0, 129661, "X", 0, 0, 129664, "V", 0, 0,
      129673, "X", 0, 0, 129680, "V", 0, 0, 129726, "X", 0, 0, 129727, "V", 0, 0, 129734, "X", 0, 0,
      129742, "V", 0, 0, 129756, "X", 0, 0, 129760, "V", 0, 0, 129769, "X", 0, 0, 129776, "V", 0, 0,
      129785, "X", 0, 0, 129792, "V", 0, 0, 129939, "X", 0, 0, 129940, "V", 0, 0, 129995, "X", 0, 0,
      130032, "M", 7277, 7277, 130033, "M", 7278, 7278, 130034, "M", 7279, 7279, 130035, "M", 7280,
      7280, 130036, "M", 7281, 7281, 130037, "M", 7282, 7282, 130038, "M", 7283, 7283, 130039, "M",
      7284, 7284, 130040, "M", 7285, 7285, 130041, "M", 7286, 7286, 130042, "X", 0, 0, 131072, "V",
      0, 0, 173792, "X", 0, 0, 173824, "V", 0, 0, 177978, "X", 0, 0, 177984, "V", 0, 0, 178206, "X",
      0, 0, 178208, "V", 0, 0, 183970, "X", 0, 0, 183984, "V", 0, 0, 191457, "X", 0, 0, 194560, "M",
      7287, 7287, 194561, "M", 7288, 7288, 194562, "M", 7289, 7289, 194563, "M", 7290, 7290, 194564,
      "M", 7291, 7291, 194565, "M", 7292, 7292, 194566, "M", 7293, 7293, 194567, "M", 7294, 7294,
      194568, "M", 7295, 7295, 194569, "M", 7296, 7296, 194570, "M", 7297, 7297, 194571, "M", 7298,
      7298, 194572, "M", 7299, 7299, 194573, "M", 7300, 7300, 194574, "M", 7301, 7301, 194575, "M",
      7302, 7302, 194576, "M", 7303, 7303, 194577, "M", 7304, 7304, 194578, "M", 7305, 7305, 194579,
      "M", 7306, 7306, 194580, "M", 7307, 7307, 194581, "M", 7308, 7308, 194582, "M", 7309, 7309,
      194583, "M", 7310, 7310, 194584, "M", 7311, 7311, 194585, "M", 7312, 7312, 194586, "M", 7313,
      7313, 194587, "M", 7314, 7314, 194588, "M", 7315, 7315, 194589, "M", 7316, 7316, 194590, "M",
      7317, 7317, 194591, "M", 7318, 7318, 194592, "M", 7319, 7319, 194593, "M", 7320, 7320, 194594,
      "M", 7321, 7321, 194595, "M", 7322, 7322, 194596, "M", 7323, 7323, 194597, "M", 7324, 7324,
      194598, "M", 7325, 7325, 194599, "M", 7326, 7326, 194600, "M", 7327, 7327, 194601, "M", 7328,
      7328, 194602, "M", 7329, 7329, 194603, "M", 7330, 7330, 194604, "M", 7331, 7331, 194605, "M",
      7332, 7332, 194606, "M", 7333, 7333, 194607, "M", 7334, 7334, 194608, "M", 7335, 7335, 194609,
      "M", 7336, 7336, 194612, "M", 7337, 7337, 194613, "M", 7338, 7338, 194614, "M", 7339, 7339,
      194615, "M", 7340, 7340, 194616, "M", 7341, 7341, 194617, "M", 7342, 7342, 194618, "M", 7343,
      7343, 194619, "M", 7344, 7344, 194620, "M", 7345, 7345, 194621, "M", 7346, 7346, 194622, "M",
      7347, 7347, 194623, "M", 7348, 7348, 194624, "M", 7349, 7349, 194625, "M", 7350, 7350, 194626,
      "M", 7351, 7351, 194627, "M", 7352, 7352, 194628, "M", 7353, 7353, 194629, "M", 7354, 7354,
      194631, "M", 7355, 7355, 194632, "M", 7356, 7356, 194633, "M", 7357, 7357, 194634, "M", 7358,
      7358, 194635, "M", 7359, 7359, 194636, "M", 7360, 7360, 194637, "M", 7361, 7361, 194638, "M",
      7362, 7362, 194639, "M", 7363, 7363, 194640, "M", 7364, 7364, 194641, "M", 7365, 7365, 194642,
      "M", 7366, 7366, 194643, "M", 7367, 7367, 194644, "M", 7368, 7368, 194645, "M", 7369, 7369,
      194646, "M", 7370, 7370, 194647, "M", 7371, 7371, 194648, "M", 7372, 7372, 194649, "M", 7373,
      7373, 194650, "M", 7374, 7374, 194651, "M", 7375, 7375, 194652, "M", 7376, 7376, 194653, "M",
      7377, 7377, 194654, "M", 7378, 7378, 194655, "M", 7379, 7379, 194656, "M", 7380, 7380, 194657,
      "M", 7381, 7381, 194658, "M", 7382, 7382, 194659, "M", 7383, 7383, 194660, "M", 7384, 7384,
      194661, "M", 7385, 7385, 194662, "M", 7386, 7386, 194663, "M", 7387, 7387, 194664, "X", 0, 0,
      194665, "M", 7388, 7388, 194666, "M", 7389, 7389, 194668, "M", 7390, 7390, 194669, "M", 7391,
      7391, 194670, "M", 7392, 7392, 194671, "M", 7393, 7393, 194672, "M", 7394, 7394, 194673, "M",
      7395, 7395, 194674, "M", 7396, 7396, 194675, "M", 7397, 7397, 194676, "X", 0, 0, 194677, "M",
      7398, 7398, 194678, "M", 7399, 7399, 194679, "M", 7400, 7400, 194680, "M", 7401, 7401, 194681,
      "M", 7402, 7402, 194682, "M", 7403, 7403, 194683, "M", 7404, 7404, 194684, "M", 7405, 7405,
      194685, "M", 7406, 7406, 194686, "M", 7407, 7407, 194687, "M", 7408, 7408, 194688, "M", 7409,
      7409, 194689, "M", 7410, 7410, 194690, "M", 7411, 7411, 194691, "M", 7412, 7412, 194692, "M",
      7413, 7413, 194693, "M", 7414, 7414, 194694, "M", 7415, 7415, 194695, "M", 7416, 7416, 194696,
      "M", 7417, 7417, 194697, "M", 7418, 7418, 194698, "M", 7419, 7419, 194699, "M", 7420, 7420,
      194700, "M", 7421, 7421, 194701, "M", 7422, 7422, 194702, "M", 7423, 7423, 194703, "M", 7424,
      7424, 194704, "M", 7425, 7425, 194705, "M", 7426, 7426, 194707, "M", 7427, 7427, 194708, "M",
      7428, 7428, 194710, "M", 7429, 7429, 194711, "M", 7430, 7430, 194712, "M", 7431, 7431, 194713,
      "M", 7432, 7432, 194714, "M", 7433, 7433, 194715, "M", 7434, 7434, 194716, "M", 7435, 7435,
      194717, "M", 7436, 7436, 194718, "M", 7437, 7437, 194719, "M", 7438, 7438, 194720, "M", 7439,
      7439, 194721, "M", 7440, 7440, 194722, "M", 7441, 7441, 194723, "M", 7442, 7442, 194724, "M",
      7443, 7443, 194725, "M", 7444, 7444, 194726, "M", 7445, 7445, 194727, "M", 7446, 7446, 194728,
      "M", 7447, 7447, 194729, "M", 7448, 7448, 194730, "M", 7449, 7449, 194731, "M", 7450, 7450,
      194732, "M", 7451, 7451, 194733, "M", 7452, 7452, 194734, "M", 7453, 7453, 194735, "M", 7454,
      7454, 194736, "M", 7455, 7455, 194737, "M", 7456, 7456, 194738, "M", 7457, 7457, 194739, "M",
      7458, 7458, 194740, "M", 7459, 7459, 194741, "M", 7460, 7460, 194742, "M", 7461, 7461, 194743,
      "M", 7462, 7462, 194744, "M", 7463, 7463, 194745, "M", 7464, 7464, 194746, "M", 7465, 7465,
      194747, "M", 7466, 7466, 194748, "M", 7467, 7467, 194749, "M", 7468, 7468, 194750, "M", 7469,
      7469, 194751, "M", 7470, 7470, 194752, "M", 7471, 7471, 194753, "M", 7472, 7472, 194754, "M",
      7473, 7473, 194755, "M", 7474, 7474, 194756, "M", 7475, 7475, 194757, "M", 7476, 7476, 194758,
      "M", 7477, 7477, 194759, "M", 7478, 7478, 194760, "M", 7479, 7479, 194761, "M", 7480, 7480,
      194762, "M", 7481, 7481, 194763, "M", 7482, 7482, 194764, "M", 7483, 7483, 194765, "M", 7484,
      7484, 194766, "M", 7485, 7485, 194767, "M", 7486, 7486, 194768, "M", 7487, 7487, 194769, "M",
      7488, 7488, 194770, "M", 7489, 7489, 194771, "M", 7490, 7490, 194772, "M", 7491, 7491, 194773,
      "M", 7492, 7492, 194774, "M", 7493, 7493, 194775, "M", 7494, 7494, 194776, "M", 7495, 7495,
      194777, "M", 7496, 7496, 194778, "M", 7497, 7497, 194779, "M", 7498, 7498, 194780, "M", 7499,
      7499, 194781, "M", 7500, 7500, 194782, "M", 7501, 7501, 194783, "M", 7502, 7502, 194784, "M",
      7503, 7503, 194785, "M", 7504, 7504, 194786, "M", 7505, 7505, 194787, "M", 7506, 7506, 194788,
      "M", 7507, 7507, 194789, "M", 7508, 7508, 194790, "M", 7509, 7509, 194791, "M", 7510, 7510,
      194792, "M", 7511, 7511, 194793, "M", 7512, 7512, 194794, "M", 7513, 7513, 194795, "M", 7514,
      7514, 194796, "M", 7515, 7515, 194797, "M", 7516, 7516, 194798, "M", 7517, 7517, 194799, "M",
      7518, 7518, 194800, "M", 7519, 7519, 194801, "M", 7520, 7520, 194802, "M", 7521, 7521, 194803,
      "M", 7522, 7522, 194804, "M", 7523, 7523, 194805, "M", 7524, 7524, 194806, "M", 7525, 7525,
      194807, "M", 7526, 7526, 194808, "M", 7527, 7527, 194809, "M", 7528, 7528, 194810, "M", 7529,
      7529, 194811, "M", 7530, 7530, 194812, "M", 7531, 7531, 194813, "M", 7532, 7532, 194814, "M",
      7533, 7533, 194815, "M", 7534, 7534, 194816, "M", 7535, 7535, 194817, "M", 7536, 7536, 194818,
      "M", 7537, 7537, 194819, "M", 7538, 7538, 194820, "M", 7539, 7539, 194821, "M", 7540, 7540,
      194822, "M", 7541, 7541, 194823, "M", 7542, 7542, 194824, "M", 7543, 7543, 194825, "M", 7544,
      7544, 194826, "M", 7545, 7545, 194827, "M", 7546, 7546, 194828, "M", 7547, 7547, 194829, "M",
      7548, 7548, 194830, "M", 7549, 7549, 194831, "M", 7550, 7550, 194832, "M", 7551, 7551, 194833,
      "M", 7552, 7552, 194834, "M", 7553, 7553, 194835, "M", 7554, 7554, 194836, "M", 7555, 7555,
      194837, "M", 7556, 7556, 194838, "M", 7557, 7557, 194839, "M", 7558, 7558, 194840, "M", 7559,
      7559, 194841, "M", 7560, 7560, 194842, "M", 7561, 7561, 194843, "M", 7562, 7562, 194844, "M",
      7563, 7563, 194845, "M", 7564, 7564, 194846, "M", 7565, 7565, 194847, "X", 0, 0, 194848, "M",
      7566, 7566, 194849, "M", 7567, 7567, 194850, "M", 7568, 7568, 194851, "M", 7569, 7569, 194852,
      "M", 7570, 7570, 194853, "M", 7571, 7571, 194854, "M", 7572, 7572, 194855, "M", 7573, 7573,
      194856, "M", 7574, 7574, 194857, "M", 7575, 7575, 194858, "M", 7576, 7576, 194859, "M", 7577,
      7577, 194860, "M", 7578, 7578, 194862, "M", 7579, 7579, 194863, "M", 7580, 7580, 194864, "M",
      7581, 7581, 194865, "M", 7582, 7582, 194866, "M", 7583, 7583, 194867, "M", 7584, 7584, 194868,
      "M", 7585, 7585, 194869, "M", 7586, 7586, 194870, "M", 7587, 7587, 194871, "M", 7588, 7588,
      194872, "M", 7589, 7589, 194873, "M", 7590, 7590, 194874, "M", 7591, 7591, 194875, "M", 7592,
      7592, 194876, "M", 7593, 7593, 194877, "M", 7594, 7594, 194878, "M", 7595, 7595, 194879, "M",
      7596, 7596, 194880, "M", 7597, 7597, 194881, "M", 7598, 7598, 194882, "M", 7599, 7599, 194883,
      "M", 7600, 7600, 194884, "M", 7601, 7601, 194885, "M", 7602, 7602, 194886, "M", 7603, 7603,
      194888, "M", 7604, 7604, 194889, "M", 7605, 7605, 194890, "M", 7606, 7606, 194891, "M", 7607,
      7607, 194892, "M", 7608, 7608, 194893, "M", 7609, 7609, 194894, "M", 7610, 7610, 194895, "M",
      7611, 7611, 194896, "M", 7612, 7612, 194897, "M", 7613, 7613, 194898, "M", 7614, 7614, 194899,
      "M", 7615, 7615, 194900, "M", 7616, 7616, 194901, "M", 7617, 7617, 194902, "M", 7618, 7618,
      194903, "M", 7619, 7619, 194904, "M", 7620, 7620, 194905, "M", 7621, 7621, 194906, "M", 7622,
      7622, 194907, "M", 7623, 7623, 194908, "M", 7624, 7624, 194909, "M", 7625, 7625, 194911, "X",
      0, 0, 194912, "M", 7626, 7626, 194913, "M", 7627, 7627, 194914, "M", 7628, 7628, 194915, "M",
      7629, 7629, 194916, "M", 7630, 7630, 194917, "M", 7631, 7631, 194918, "M", 7632, 7632, 194919,
      "M", 7633, 7633, 194920, "M", 7634, 7634, 194921, "M", 7635, 7635, 194922, "M", 7636, 7636,
      194923, "M", 7637, 7637, 194924, "M", 7638, 7638, 194925, "M", 7639, 7639, 194926, "M", 7640,
      7640, 194927, "M", 7641, 7641, 194928, "M", 7642, 7642, 194929, "M", 7643, 7643, 194930, "M",
      7644, 7644, 194931, "M", 7645, 7645, 194932, "M", 7646, 7646, 194933, "M", 7647, 7647, 194934,
      "M", 7648, 7648, 194935, "M", 7649, 7649, 194936, "M", 7650, 7650, 194937, "M", 7651, 7651,
      194938, "M", 7652, 7652, 194939, "M", 7653, 7653, 194940, "M", 7654, 7654, 194941, "M", 7655,
      7655, 194942, "M", 7656, 7656, 194943, "M", 7657, 7657, 194944, "M", 7658, 7658, 194945, "M",
      7659, 7659, 194946, "M", 7660, 7660, 194947, "M", 7661, 7661, 194948, "M", 7662, 7662, 194949,
      "M", 7663, 7663, 194950, "M", 7664, 7664, 194951, "M", 7665, 7665, 194952, "M", 7666, 7666,
      194953, "M", 7667, 7667, 194954, "M", 7668, 7668, 194955, "M", 7669, 7669, 194956, "M", 7670,
      7670, 194957, "M", 7671, 7671, 194958, "M", 7672, 7672, 194959, "M", 7673, 7673, 194960, "M",
      7674, 7674, 194961, "M", 7675, 7675, 194962, "M", 7676, 7676, 194963, "M", 7677, 7677, 194964,
      "M", 7678, 7678, 194965, "M", 7679, 7679, 194966, "M", 7680, 7680, 194967, "M", 7681, 7681,
      194968, "M", 7682, 7682, 194969, "M", 7683, 7683, 194970, "M", 7684, 7684, 194971, "M", 7685,
      7685, 194972, "M", 7686, 7686, 194973, "M", 7687, 7687, 194974, "M", 7688, 7688, 194975, "M",
      7689, 7689, 194976, "M", 7690, 7690, 194977, "M", 7691, 7691, 194978, "M", 7692, 7692, 194979,
      "M", 7693, 7693, 194980, "M", 7694, 7694, 194981, "M", 7695, 7695, 194982, "M", 7696, 7696,
      194983, "M", 7697, 7697, 194984, "M", 7698, 7698, 194985, "M", 7699, 7699, 194986, "M", 7700,
      7700, 194987, "M", 7701, 7701, 194988, "M", 7702, 7702, 194989, "M", 7703, 7703, 194990, "M",
      7704, 7704, 194991, "M", 7705, 7705, 194992, "M", 7706, 7706, 194993, "M", 7707, 7707, 194994,
      "M", 7708, 7708, 194995, "M", 7709, 7709, 194996, "M", 7710, 7710, 194997, "M", 7711, 7711,
      194998, "M", 7712, 7712, 194999, "M", 7713, 7713, 195000, "M", 7714, 7714, 195001, "M", 7715,
      7715, 195002, "M", 7716, 7716, 195003, "M", 7717, 7717, 195004, "M", 7718, 7718, 195005, "M",
      7719, 7719, 195006, "M", 7720, 7720, 195007, "X", 0, 0, 195008, "M", 7721, 7721, 195009, "M",
      7722, 7722, 195010, "M", 7723, 7723, 195011, "M", 7724, 7724, 195012, "M", 7725, 7725, 195013,
      "M", 7726, 7726, 195014, "M", 7727, 7727, 195015, "M", 7728, 7728, 195016, "M", 7729, 7729,
      195017, "M", 7730, 7730, 195018, "M", 7731, 7731, 195019, "M", 7732, 7732, 195020, "M", 7733,
      7733, 195021, "M", 7734, 7734, 195022, "M", 7735, 7735, 195023, "M", 7736, 7736, 195024, "M",
      7737, 7737, 195025, "M", 7738, 7738, 195026, "M", 7739, 7739, 195027, "M", 7740, 7740, 195028,
      "M", 7741, 7741, 195029, "M", 7742, 7742, 195030, "M", 7743, 7743, 195031, "M", 7744, 7744,
      195032, "M", 7745, 7745, 195033, "M", 7746, 7746, 195034, "M", 7747, 7747, 195035, "M", 7748,
      7748, 195036, "M", 7749, 7749, 195037, "M", 7750, 7750, 195038, "M", 7751, 7751, 195039, "M",
      7752, 7752, 195040, "M", 7753, 7753, 195041, "M", 7754, 7754, 195042, "M", 7755, 7755, 195043,
      "M", 7756, 7756, 195044, "M", 7757, 7757, 195045, "M", 7758, 7758, 195046, "M", 7759, 7759,
      195047, "M", 7760, 7760, 195048, "M", 7761, 7761, 195049, "M", 7762, 7762, 195050, "M", 7763,
      7763, 195051, "M", 7764, 7764, 195052, "M", 7765, 7765, 195053, "M", 7766, 7766, 195054, "M",
      7767, 7767, 195055, "M", 7768, 7768, 195056, "M", 7769, 7769, 195057, "M", 7770, 7770, 195058,
      "M", 7771, 7771, 195059, "M", 7772, 7772, 195060, "M", 7773, 7773, 195061, "M", 7774, 7774,
      195062, "M", 7775, 7775, 195063, "M", 7776, 7776, 195064, "M", 7777, 7777, 195065, "M", 7778,
      7778, 195066, "M", 7779, 7779, 195067, "M", 7780, 7780, 195068, "M", 7781, 7781, 195069, "M",
      7782, 7782, 195070, "M", 7783, 7783, 195072, "M", 7784, 7784, 195073, "M", 7785, 7785, 195074,
      "M", 7786, 7786, 195075, "M", 7787, 7787, 195076, "M", 7788, 7788, 195077, "M", 7789, 7789,
      195078, "M", 7790, 7790, 195079, "M", 7791, 7791, 195080, "M", 7792, 7792, 195081, "M", 7793,
      7793, 195082, "M", 7794, 7794, 195083, "M", 7795, 7795, 195084, "M", 7796, 7796, 195085, "M",
      7797, 7797, 195086, "M", 7798, 7798, 195087, "M", 7799, 7799, 195088, "M", 7800, 7800, 195089,
      "M", 7801, 7801, 195090, "M", 7802, 7802, 195091, "M", 7803, 7803, 195092, "M", 7804, 7804,
      195093, "M", 7805, 7805, 195094, "M", 7806, 7806, 195095, "M", 7807, 7807, 195096, "M", 7808,
      7808, 195097, "M", 7809, 7809, 195098, "M", 7810, 7810, 195099, "M", 7811, 7811, 195100, "M",
      7812, 7812, 195101, "M", 7813, 7813, 195102, "X", 0, 0, 196608, "V", 0, 0, 201547, "X", 0, 0,
      201552, "V", 0, 0, 205744, "X", 0, 0, 917760, "I", 0, 0, 918000, "X", 0, 0>>

\* the code points the rows of uts46data map to, those of one row after those
\* of the other
uts46_mapped ==
    <<97, 98, 99, 100, 101, 102, 103, 104, 105, 106, 107, 108, 109, 110, 111, 112, 113, 114, 115,
      116, 117, 118, 119, 120, 121, 122, 32, 32, 776, 97, 32, 772, 50, 51, 32, 769, 956, 32, 807,
      49, 111, 49, 8260, 52, 49, 8260, 50, 51, 8260, 52, 224, 225, 226, 227, 228, 229, 230, 231,
      232, 233, 234, 235, 236, 237, 238, 239, 240, 241, 242, 243, 244, 245, 246, 248, 249, 250, 251,
      252, 253, 254, 115, 115, 257, 259, 261, 263, 265, 267, 269, 271, 273, 275, 277, 279, 281, 283,
      285, 287, 289, 291, 293, 295, 297, 299, 301, 303, 105, 775, 105, 106, 309, 311, 314, 316, 318,
      108, 183, 322, 324, 326, 328, 700, 110, 331, 333, 335, 337, 339, 341, 343, 345, 347, 349, 351,
      353, 355, 357, 359, 361, 363, 365, 367, 369, 371, 373, 375, 255, 378, 380, 382, 115, 595, 387,
      389, 596, 392, 598, 599, 396, 477, 601, 603, 402, 608, 611, 617, 616, 409, 623, 626, 629, 417,
      419, 421, 640, 424, 643, 429, 648, 432, 650, 651, 436, 438, 658, 441, 445, 100, 382, 108, 106,
      110, 106, 462, 464, 466, 468, 470, 472, 474, 476, 479, 481, 483, 485, 487, 489, 491, 493, 495,
      100, 122, 501, 405, 447, 505, 507, 509, 511, 513, 515, 517, 519, 521, 523, 525, 527, 529, 531,
      533, 535, 537, 539, 541, 543, 414, 547, 549, 551, 553, 555, 557, 559, 561, 563, 11365, 572,
      410, 11366, 578, 384, 649, 652, 583, 585, 587, 589, 591, 104, 614, 106, 114, 633, 635, 641,
      119, 121, 32, 774, 32, 775, 32, 778, 32, 808, 32, 771, 32, 779, 611, 108, 115, 120, 661, 768,
      769, 787, 776, 769, 953, 881, 883, 697, 887, 32, 953, 59, 1011, 32, 769, 32, 776, 769, 940,
      183, 941, 942, 943, 972, 973, 974, 945, 946, 947, 948, 949, 950, 951, 952, 953, 954, 955, 956,
      957, 958, 959, 960, 961, 963, 964, 965, 966, 967, 968, 969, 970, 971, 963, 983, 946, 952, 965,
      973, 971, 966, 960, 985, 987, 989, 991, 993, 995, 997, 999, 1001, 1003, 1005, 1007, 954, 961,
      963, 952, 949, 1016, 963, 1019, 891, 892, 893, 1104, 1105, 1106, 1107, 1108, 1109, 1110, 1111,
      1112, 1113, 1114, 1115, 1116, 1117, 1118, 1119, 1072, 1073, 1074, 1075, 1076, 1077, 1078,
      1079, 1080, 1081, 1082, 1083, 1084, 1085, 1086, 1087, 1088, 1089, 1090, 1091, 1092, 1093,
      1094, 1095, 1096, 1097, 1098, 1099, 1100, 1101, 1102, 1103, 1121, 1123, 1125, 1127, 1129,
      1131, 1133, 1135, 1137, 1139, 1141, 1143, 1145, 1147, 1149, 1151, 1153, 1163, 1165, 1167,
      1169, 1171, 1173, 1175, 1177, 1179, 1181, 1183, 1185, 1187, 1189, 1191, 1193, 1195, 1197,
      1199, 1201, 1203, 1205, 1207, 1209, 1211, 1213, 1215, 1218, 1220, 1222, 1224, 1226, 1228,
      1230, 1233, 1235, 1237, 1239, 1241, 1243, 1245, 1247, 1249, 1251, 1253, 1255, 1257, 1259,
      1261, 1263, 1265, 1267, 1269, 1271, 1273, 1275, 1277, 1279, 1281, 1283, 1285, 1287, 1289,
      1291, 1293, 1295, 1297, 1299, 1301, 1303, 1305, 1307, 1309, 1311, 1313, 1315, 1317, 1319,
      1321, 1323, 1325, 1327, 1377, 1378, 1379, 1380, 1381, 1382, 1383, 1384, 1385, 1386, 1387,
      1388, 1389, 1390, 1391, 1392, 1393, 1394, 1395, 1396, 1397, 1398, 1399, 1400, 1401, 1402,
      1403, 1404, 1405, 1406, 1407, 1408, 1409, 1410, 1411, 1412, 1413, 1414, 1381, 1410, 1575,
      1652, 1608, 1652, 1735, 1652, 1610, 1652, 2325, 2364, 2326, 2364, 2327, 2364, 2332, 2364,
      2337, 2364, 2338, 2364, 2347, 2364, 2351, 2364, 2465, 2492, 2466, 2492, 2479, 2492, 2610,
      2620, 2616, 2620, 2582, 2620, 2583, 2620, 2588, 2620, 2603, 2620, 2849, 2876, 2850, 2876,
      3661, 3634, 3789, 3762, 3755, 3737, 3755, 3745, 3851, 3906, 4023, 3916, 4023, 3921, 4023,
      3926, 4023, 3931, 4023, 3904, 4021, 3953, 3954, 3953, 3956, 4018, 3968, 4018, 3953, 3968,
      4019, 3968, 4019, 3953, 3968, 3953, 3968, 3986, 4023, 3996, 4023, 4001, 4023, 4006, 4023,
      4011, 4023, 3984, 4021, 11559, 11565, 4316, 5104, 5105, 5106, 5107, 5108, 5109, 1074, 1076,
      1086, 1089, 1090, 1098, 1123, 42571, 4304, 4305, 4306, 4307, 4308, 4309, 4310, 4311, 4312,
      4313, 4314, 4315, 4316, 4317, 4318, 4319, 4320, 4321, 4322, 4323, 4324, 4325, 4326, 4327,
      4328, 4329, 4330, 4331, 4332, 4333, 4334, 4335, 4336, 4337, 4338, 4339, 4340, 4341, 4342,
      4343, 4344, 4345, 4346, 4349, 4350, 4351, 97, 230, 98, 100, 101, 477, 103, 104, 105, 106, 107,
      108, 109, 110, 111, 547, 112, 114, 116, 117, 119, 97, 592, 593, 7426, 98, 100, 101, 601, 603,
      604, 103, 107, 109, 331, 111, 596, 7446, 7447, 112, 116, 117, 7453, 623, 118, 7461, 946, 947,
      948, 966, 967, 105, 114, 117, 118, 946, 947, 961, 966, 967, 1085, 594, 99, 597, 240, 604, 102,
      607, 609, 613, 616, 617, 618, 7547, 669, 621, 7557, 671, 625, 624, 626, 627, 628, 629, 632,
      642, 643, 427, 649, 650, 7452, 651, 652, 122, 656, 657, 658, 952, 7681, 7683, 7685, 7687,
      7689, 7691, 7693, 7695, 7697, 7699, 7701, 7703, 7705, 7707, 7709, 7711, 7713, 7715, 7717,
      7719, 7721, 7723, 7725, 7727, 7729, 7731, 7733, 7735, 7737, 7739, 7741, 7743, 7745, 7747,
      7749, 7751, 7753, 7755, 7757, 7759, 7761, 7763, 7765, 7767, 7769, 7771, 7773, 7775, 7777,
      7779, 7781, 7783, 7785, 7787, 7789, 7791, 7793, 7795, 7797, 7799, 7801, 7803, 7805, 7807,
      7809, 7811, 7813, 7815, 7817, 7819, 7821, 7823, 7825, 7827, 7829, 97, 702, 7777, 115, 115,
      7841, 7843, 7845, 7847, 7849, 7851, 7853, 7855, 7857, 7859, 7861, 7863, 7865, 7867, 7869,
      7871, 7873, 7875, 7877, 7879, 7881, 7883, 7885, 7887, 7889, 7891, 7893, 7895, 7897, 7899,
      7901, 7903, 7905, 7907, 7909, 7911, 7913, 7915, 7917, 7919, 7921, 7923, 7925, 7927, 7929,
      7931, 7933, 7935, 7936, 7937, 7938, 7939, 7940, 7941, 7942, 7943, 7952, 7953, 7954, 7955,
      7956, 7957, 7968, 7969, 7970, 7971, 7972, 7973, 7974, 7975, 7984, 7985, 7986, 7987, 7988,
      7989, 7990, 7991, 8000, 8001, 8002, 8003, 8004, 8005, 8017, 8019, 8021, 8023, 8032, 8033,
      8034, 8035, 8036, 8037, 8038, 8039, 940, 941, 942, 943, 972, 973, 974, 7936, 953, 7937, 953,
      7938, 953, 7939, 953, 7940, 953, 7941, 953, 7942, 953, 7943, 953, 7936, 953, 7937, 953, 7938,
      953, 7939, 953, 7940, 953, 7941, 953, 7942, 953, 7943, 953, 7968, 953, 7969, 953, 7970, 953,
      7971, 953, 7972, 953, 7973, 953, 7974, 953, 7975, 953, 7968, 953, 7969, 953, 7970, 953, 7971,
      953, 7972, 953, 7973, 953, 7974, 953, 7975, 953, 8032, 953, 8033, 953, 8034, 953, 8035, 953,
      8036, 953, 8037, 953, 8038, 953, 8039, 953, 8032, 953, 8033, 953, 8034, 953, 8035, 953, 8036,
      953, 8037, 953, 8038, 953, 8039, 953, 8048, 953, 945, 953, 940, 953, 8118, 953, 8112, 8113,
      8048, 940, 945, 953, 32, 787, 953, 32, 787, 32, 834, 32, 776, 834, 8052, 953, 951, 953, 942,
      953, 8134, 953, 8050, 941, 8052, 942, 951, 953, 32, 787, 768, 32, 787, 769, 32, 787, 834, 912,
      8144, 8145, 8054, 943, 32, 788, 768, 32, 788, 769, 32, 788, 834, 944, 8160, 8161, 8058, 973,
      8165, 32, 776, 768, 32, 776, 769, 96, 8060, 953, 969, 953, 974, 953, 8182, 953, 8056, 972,
      8060, 974, 969, 953, 32, 769, 32, 788, 32, 8208, 32, 819, 32, 8242, 8242, 8242, 8242, 8242,
      8245, 8245, 8245, 8245, 8245, 33, 33, 32, 773, 63, 63, 63, 33, 33, 63, 8242, 8242, 8242, 8242,
      32, 48, 105, 52, 53, 54, 55, 56, 57, 43, 8722, 61, 40, 41, 110, 48, 49, 50, 51, 52, 53, 54,
      55, 56, 57, 43, 8722, 61, 40, 41, 97, 101, 111, 120, 601, 104, 107, 108, 109, 110, 112, 115,
      116, 114, 115, 97, 47, 99, 97, 47, 115, 99, 176, 99, 99, 47, 111, 99, 47, 117, 603, 176, 102,
      103, 104, 295, 105, 108, 110, 110, 111, 112, 113, 114, 115, 109, 116, 101, 108, 116, 109, 122,
      969, 122, 107, 229, 98, 99, 101, 102, 109, 111, 1488, 1489, 1490, 1491, 105, 102, 97, 120,
      960, 947, 960, 8721, 100, 101, 105, 106, 49, 8260, 55, 49, 8260, 57, 49, 8260, 49, 48, 49,
      8260, 51, 50, 8260, 51, 49, 8260, 53, 50, 8260, 53, 51, 8260, 53, 52, 8260, 53, 49, 8260, 54,
      53, 8260, 54, 49, 8260, 56, 51, 8260, 56, 53, 8260, 56, 55, 8260, 56, 49, 8260, 105, 105, 105,
      105, 105, 105, 105, 118, 118, 118, 105, 118, 105, 105, 118, 105, 105, 105, 105, 120, 120, 120,
      105, 120, 105, 105, 108, 99, 100, 109, 105, 105, 105, 105, 105, 105, 105, 118, 118, 118, 105,
      118, 105, 105, 118, 105, 105, 105, 105, 120, 120, 120, 105, 120, 105, 105, 108, 99, 100, 109,
      48, 8260, 51, 8747, 8747, 8747, 8747, 8747, 8750, 8750, 8750, 8750, 8750, 12296, 12297, 49,
      50, 51, 52, 53, 54, 55, 56, 57, 49, 48, 49, 49, 49, 50, 49, 51, 49, 52, 49, 53, 49, 54, 49,
      55, 49, 56, 49, 57, 50, 48, 40, 49, 41, 40, 50, 41, 40, 51, 41, 40, 52, 41, 40, 53, 41, 40,
      54, 41, 40, 55, 41, 40, 56, 41, 40, 57, 41, 40, 49, 48, 41, 40, 49, 49, 41, 40, 49, 50, 41,
      40, 49, 51, 41, 40, 49, 52, 41, 40, 49, 53, 41, 40, 49, 54, 41, 40, 49, 55, 41, 40, 49, 56,
      41, 40, 49, 57, 41, 40, 50, 48, 41, 40, 97, 41, 40, 98, 41, 40, 99, 41, 40, 100, 41, 40, 101,
      41, 40, 102, 41, 40, 103, 41, 40, 104, 41, 40, 105, 41, 40, 106, 41, 40, 107, 41, 40, 108, 41,
      40, 109, 41, 40, 110, 41, 40, 111, 41, 40, 112, 41, 40, 113, 41, 40, 114, 41, 40, 115, 41, 40,
      116, 41, 40, 117, 41, 40, 118, 41, 40, 119, 41, 40, 120, 41, 40, 121, 41, 40, 122, 41, 97, 98,
      99, 100, 101, 102, 103, 104, 105, 106, 107, 108, 109, 110, 111, 112, 113, 114, 115, 116, 117,
      118, 119, 120, 121, 122, 97, 98, 99, 100, 101, 102, 103, 104, 105, 106, 107, 108, 109, 110,
      111, 112, 113, 114, 115, 116, 117, 118, 119, 120, 121, 122, 48, 8747, 8747, 8747, 8747, 58,
      58, 61, 61, 61, 61, 61, 61, 10973, 824, 11312, 11313, 11314, 11315, 11316, 11317, 11318,
      11319, 11320, 11321, 11322, 11323, 11324, 11325, 11326, 11327, 11328, 11329, 11330, 11331,
      11332, 11333, 11334, 11335, 11336, 11337, 11338, 11339, 11340, 11341, 11342, 11343, 11344,
      11345, 11346, 11347, 11348, 11349, 11350, 11351, 11352, 11353, 11354, 11355, 11356, 11357,
      11358, 11359, 11361, 619, 7549, 637, 11368, 11370, 11372, 593, 625, 592, 594, 11379, 11382,
      106, 118, 575, 576, 11393, 11395, 11397, 11399, 11401, 11403, 11405, 11407, 11409, 11411,
      11413, 11415, 11417, 11419, 11421, 11423, 11425, 11427, 11429, 11431, 11433, 11435, 11437,
      11439, 11441, 11443, 11445, 11447, 11449, 11451, 11453, 11455, 11457, 11459, 11461, 11463,
      11465, 11467, 11469, 11471, 11473, 11475, 11477, 11479, 11481, 11483, 11485, 11487, 11489,
      11491, 11500, 11502, 11507, 11617, 27597, 40863, 19968, 20008, 20022, 20031, 20057, 20101,
      20108, 20128, 20154, 20799, 20837, 20843, 20866, 20886, 20907, 20960, 20981, 20992, 21147,
      21241, 21269, 21274, 21304, 21313, 21340, 21353, 21378, 21430, 21448, 21475, 22231, 22303,
      22763, 22786, 22794, 22805, 22823, 22899, 23376, 23424, 23544, 23567, 23586, 23608, 23662,
      23665, 24027, 24037, 24049, 24062, 24178, 24186, 24191, 24308, 24318, 24331, 24339, 24400,
      24417, 24435, 24515, 25096, 25142, 25163, 25903, 25908, 25991, 26007, 26020, 26041, 26080,
      26085, 26352, 26376, 26408, 27424, 27490, 27513, 27571, 27595, 27604, 27611, 27663, 27668,
      27700, 28779, 29226, 29238, 29243, 29247, 29255, 29273, 29275, 29356, 29572, 29577, 29916,
      29926, 29976, 29983, 29992, 30000, 30091, 30098, 30326, 30333, 30382, 30399, 30446, 30683,
      30690, 30707, 31034, 31160, 31166, 31348, 31435, 31481, 31859, 31992, 32566, 32593, 32650,
      32701, 32769, 32780, 32786, 32819, 32895, 32905, 33251, 33258, 33267, 33276, 33292, 33307,
      33311, 33390, 33394, 33400, 34381, 34411, 34880, 34892, 34915, 35198, 35211, 35282, 35328,
      35895, 35910, 35925, 35960, 35997, 36196, 36208, 36275, 36523, 36554, 36763, 36784, 36789,
      37009, 37193, 37318, 37324, 37329, 38263, 38272, 38428, 38582, 38585, 38632, 38737, 38750,
      38754, 38761, 38859, 38893, 38899, 38913, 39080, 39131, 39135, 39318, 39321, 39340, 39592,
      39640, 39647, 39717, 39727, 39730, 39740, 39770, 40165, 40565, 40575, 40613, 40635, 40643,
      40653, 40657, 40697, 40701, 40718, 40723, 40736, 40763, 40778, 40786, 40845, 40860, 40864, 32,
      46, 12306, 21313, 21316, 21317, 32, 12441, 32, 12442, 12424, 12426, 12467, 12488, 4352, 4353,
      4522, 4354, 4524, 4525, 4355, 4356, 4357, 4528, 4529, 4530, 4531, 4532, 4533, 4378, 4358,
      4359, 4360, 4385, 4361, 4362, 4363, 4364, 4365, 4366, 4367, 4368, 4369, 4370, 4449, 4450,
      4451, 4452, 4453, 4454, 4455, 4456, 4457, 4458, 4459, 4460, 4461, 4462, 4463, 4464, 4465,
      4466, 4467, 4468, 4469, 4372, 4373, 4551, 4552, 4556, 4558, 4563, 4567, 4569, 4380, 4573,
      4575, 4381, 4382, 4384, 4386, 4387, 4391, 4393, 4395, 4396, 4397, 4398, 4399, 4402, 4406,
      4416, 4423, 4428, 4593, 4594, 4439, 4440, 4441, 4484, 4485, 4488, 4497, 4498, 4500, 4510,
      4513, 19968, 20108, 19977, 22235, 19978, 20013, 19979, 30002, 20057, 19993, 19969, 22825,
      22320, 20154, 40, 4352, 41, 40, 4354, 41, 40, 4355, 41, 40, 4357, 41, 40, 4358, 41, 40, 4359,
      41, 40, 4361, 41, 40, 4363, 41, 40, 4364, 41, 40, 4366, 41, 40, 4367, 41, 40, 4368, 41, 40,
      4369, 41, 40, 4370, 41, 40, 44032, 41, 40, 45208, 41, 40, 45796, 41, 40, 46972, 41, 40, 47560,
      41, 40, 48148, 41, 40, 49324, 41, 40, 50500, 41, 40, 51088, 41, 40, 52264, 41, 40, 52852, 41,
      40, 53440, 41, 40, 54028, 41, 40, 54616, 41, 40, 51452, 41, 40, 50724, 51204, 41, 40, 50724,
      54980, 41, 40, 19968, 41, 40, 20108, 41, 40, 19977, 41, 40, 22235, 41, 40, 20116, 41, 40,
      20845, 41, 40, 19971, 41, 40, 20843, 41, 40, 20061, 41, 40, 21313, 41, 40, 26376, 41, 40,
      28779, 41, 40, 27700, 41, 40, 26408, 41, 40, 37329, 41, 40, 22303, 41, 40, 26085, 41, 40,
      26666, 41, 40, 26377, 41, 40, 31038, 41, 40, 21517, 41, 40, 29305, 41, 40, 36001, 41, 40,
      31069, 41, 40, 21172, 41, 40, 20195, 41, 40, 21628, 41, 40, 23398, 41, 40, 30435, 41, 40,
      20225, 41, 40, 36039, 41, 40, 21332, 41, 40, 31085, 41, 40, 20241, 41, 40, 33258, 41, 40,
      33267, 41, 21839, 24188, 25991, 31631, 112, 116, 101, 50, 49, 50, 50, 50, 51, 50, 52, 50, 53,
      50, 54, 50, 55, 50, 56, 50, 57, 51, 48, 51, 49, 51, 50, 51, 51, 51, 52, 51, 53, 4352, 4354,
      4355, 4357, 4358, 4359, 4361, 4363, 4364, 4366, 4367, 4368, 4369, 4370, 44032, 45208, 45796,
      46972, 47560, 48148, 49324, 50500, 51088, 52264, 52852, 53440, 54028, 54616, 52280, 44256,
      51452, 51032, 50864, 19968, 20108, 19977, 22235, 20116, 20845, 19971, 20843, 20061, 21313,
      26376, 28779, 27700, 26408, 37329, 22303, 26085, 26666, 26377, 31038, 21517, 29305, 36001,
      31069, 21172, 31192, 30007, 22899, 36969, 20778, 21360, 27880, 38917, 20241, 20889, 27491,
      19978, 20013, 19979, 24038, 21491, 21307, 23447, 23398, 30435, 20225, 36039, 21332, 22812, 51,
      54, 51, 55, 51, 56, 51, 57, 52, 48, 52, 49, 52, 50, 52, 51, 52, 52, 52, 53, 52, 54, 52, 55,
      52, 56, 52, 57, 53, 48, 49, 26376, 50, 26376, 51, 26376, 52, 26376, 53, 26376, 54, 26376, 55,
      26376, 56, 26376, 57, 26376, 49, 48, 26376, 49, 49, 26376, 49, 50, 26376, 104, 103, 101, 114,
      103, 101, 118, 108, 116, 100, 12450, 12452, 12454, 12456, 12458, 12459, 12461, 12463, 12465,
      12467, 12469, 12471, 12473, 12475, 12477, 12479, 12481, 12484, 12486, 12488, 12490, 12491,
      12492, 12493, 12494, 12495, 12498, 12501, 12504, 12507, 12510, 12511, 12512, 12513, 12514,
      12516, 12518, 12520, 12521, 12522, 12523, 12524, 12525, 12527, 12528, 12529, 12530, 20196,
      21644, 12450, 12497, 12540, 12488, 12450, 12523, 12501, 12449, 12450, 12531, 12506, 12450,
      12450, 12540, 12523, 12452, 12491, 12531, 12464, 12452, 12531, 12481, 12454, 12457, 12531,
      12456, 12473, 12463, 12540, 12489, 12456, 12540, 12459, 12540, 12458, 12531, 12473, 12458,
      12540, 12512, 12459, 12452, 12522, 12459, 12521, 12483, 12488, 12459, 12525, 12522, 12540,
      12460, 12525, 12531, 12460, 12531, 12510, 12462, 12460, 12462, 12491, 12540, 12461, 12517,
      12522, 12540, 12462, 12523, 12480, 12540, 12461, 12525, 12461, 12525, 12464, 12521, 12512,
      12461, 12525, 12513, 12540, 12488, 12523, 12461, 12525, 12527, 12483, 12488, 12464, 12521,
      12512, 12464, 12521, 12512, 12488, 12531, 12463, 12523, 12476, 12452, 12525, 12463, 12525,
      12540, 12493, 12465, 12540, 12473, 12467, 12523, 12490, 12467, 12540, 12509, 12469, 12452,
      12463, 12523, 12469, 12531, 12481, 12540, 12512, 12471, 12522, 12531, 12464, 12475, 12531,
      12481, 12475, 12531, 12488, 12480, 12540, 12473, 12487, 12471, 12489, 12523, 12488, 12531,
      12490, 12494, 12494, 12483, 12488, 12495, 12452, 12484, 12497, 12540, 12475, 12531, 12488,
      12497, 12540, 12484, 12496, 12540, 12524, 12523, 12500, 12450, 12473, 12488, 12523, 12500,
      12463, 12523, 12500, 12467, 12499, 12523, 12501, 12449, 12521, 12483, 12489, 12501, 12451,
      12540, 12488, 12502, 12483, 12471, 12455, 12523, 12501, 12521, 12531, 12504, 12463, 12479,
      12540, 12523, 12506, 12477, 12506, 12491, 12498, 12504, 12523, 12484, 12506, 12531, 12473,
      12506, 12540, 12472, 12505, 12540, 12479, 12509, 12452, 12531, 12488, 12508, 12523, 12488,
      12507, 12531, 12509, 12531, 12489, 12507, 12540, 12523, 12507, 12540, 12531, 12510, 12452,
      12463, 12525, 12510, 12452, 12523, 12510, 12483, 12495, 12510, 12523, 12463, 12510, 12531,
      12471, 12519, 12531, 12511, 12463, 12525, 12531, 12511, 12522, 12511, 12522, 12496, 12540,
      12523, 12513, 12460, 12513, 12460, 12488, 12531, 12513, 12540, 12488, 12523, 12516, 12540,
      12489, 12516, 12540, 12523, 12518, 12450, 12531, 12522, 12483, 12488, 12523, 12522, 12521,
      12523, 12500, 12540, 12523, 12540, 12502, 12523, 12524, 12512, 12524, 12531, 12488, 12466,
      12531, 12527, 12483, 12488, 48, 28857, 49, 28857, 50, 28857, 51, 28857, 52, 28857, 53, 28857,
      54, 28857, 55, 28857, 56, 28857, 57, 28857, 49, 48, 28857, 49, 49, 28857, 49, 50, 28857, 49,
      51, 28857, 49, 52, 28857, 49, 53, 28857, 49, 54, 28857, 49, 55, 28857, 49, 56, 28857, 49, 57,
      28857, 50, 48, 28857, 50, 49, 28857, 50, 50, 28857, 50, 51, 28857, 50, 52, 28857, 104, 112,
      97, 100, 97, 97, 117, 98, 97, 114, 111, 118, 112, 99, 100, 109, 100, 109, 50, 100, 109, 51,
      105, 117, 24179, 25104, 26157, 21644, 22823, 27491, 26126, 27835, 26666, 24335, 20250, 31038,
      112, 97, 110, 97, 956, 97, 109, 97, 107, 97, 107, 98, 109, 98, 103, 98, 99, 97, 108, 107, 99,
      97, 108, 112, 102, 110, 102, 956, 102, 956, 103, 109, 103, 107, 103, 104, 122, 107, 104, 122,
      109, 104, 122, 103, 104, 122, 116, 104, 122, 956, 108, 109, 108, 100, 108, 107, 108, 102, 109,
      110, 109, 956, 109, 109, 109, 99, 109, 107, 109, 109, 109, 50, 99, 109, 50, 109, 50, 107, 109,
      50, 109, 109, 51, 99, 109, 51, 109, 51, 107, 109, 51, 109, 8725, 115, 109, 8725, 115, 50, 112,
      97, 107, 112, 97, 109, 112, 97, 103, 112, 97, 114, 97, 100, 114, 97, 100, 8725, 115, 114, 97,
      100, 8725, 115, 50, 112, 115, 110, 115, 956, 115, 109, 115, 112, 118, 110, 118, 956, 118, 109,
      118, 107, 118, 109, 118, 112, 119, 110, 119, 956, 119, 109, 119, 107, 119, 109, 119, 107, 969,
      109, 969, 98, 113, 99, 99, 99, 100, 99, 8725, 107, 103, 100, 98, 103, 121, 104, 97, 104, 112,
      105, 110, 107, 107, 107, 109, 107, 116, 108, 109, 108, 110, 108, 111, 103, 108, 120, 109, 98,
      109, 105, 108, 109, 111, 108, 112, 104, 112, 112, 109, 112, 114, 115, 114, 115, 118, 119, 98,
      118, 8725, 109, 97, 8725, 109, 49, 26085, 50, 26085, 51, 26085, 52, 26085, 53, 26085, 54,
      26085, 55, 26085, 56, 26085, 57, 26085, 49, 48, 26085, 49, 49, 26085, 49, 50, 26085, 49, 51,
      26085, 49, 52, 26085, 49, 53, 26085, 49, 54, 26085, 49, 55, 26085, 49, 56, 26085, 49, 57,
      26085, 50, 48, 26085, 50, 49, 26085, 50, 50, 26085, 50, 51, 26085, 50, 52, 26085, 50, 53,
      26085, 50, 54, 26085, 50, 55, 26085, 50, 56, 26085, 50, 57, 26085, 51, 48, 26085, 51, 49,
      26085, 103, 97, 108, 42561, 42563, 42565, 42567, 42569, 42571, 42573, 42575, 42577, 42579,
      42581, 42583, 42585, 42587, 42589, 42591, 42593, 42595, 42597, 42599, 42601, 42603, 42605,
      42625, 42627, 42629, 42631, 42633, 42635, 42637, 42639, 42641, 42643, 42645, 42647, 42649,
      42651, 1098, 1100, 42787, 42789, 42791, 42793, 42795, 42797, 42799, 42803, 42805, 42807,
      42809, 42811, 42813, 42815, 42817, 42819, 42821, 42823, 42825, 42827, 42829, 42831, 42833,
      42835, 42837, 42839, 42841, 42843, 42845, 42847, 42849, 42851, 42853, 42855, 42857, 42859,
      42861, 42863, 42863, 42874, 42876, 7545, 42879, 42881, 42883, 42885, 42887, 42892, 613, 42897,
      42899, 42903, 42905, 42907, 42909, 42911, 42913, 42915, 42917, 42919, 42921, 614, 604, 609,
      620, 618, 670, 647, 669, 43859, 42933, 42935, 42937, 42939, 42941, 42943, 42945, 42947, 42900,
      642, 7566, 42952, 42954, 42961, 42967, 42969, 99, 102, 113, 42998, 295, 339, 42791, 43831,
      619, 43858, 653, 5024, 5025, 5026, 5027, 5028, 5029, 5030, 5031, 5032, 5033, 5034, 5035, 5036,
      5037, 5038, 5039, 5040, 5041, 5042, 5043, 5044, 5045, 5046, 5047, 5048, 5049, 5050, 5051,
      5052, 5053, 5054, 5055, 5056, 5057, 5058, 5059, 5060, 5061, 5062, 5063, 5064, 5065, 5066,
      5067, 5068, 5069, 5070, 5071, 5072, 5073, 5074, 5075, 5076, 5077, 5078, 5079, 5080, 5081,
      5082, 5083, 5084, 5085, 5086, 5087, 5088, 5089, 5090, 5091, 5092, 5093, 5094, 5095, 5096,
      5097, 5098, 5099, 5100, 5101, 5102, 5103, 35912, 26356, 36554, 36040, 28369, 20018, 21477,
      40860, 22865, 37329, 21895, 22856, 25078, 30313, 32645, 34367, 34746, 35064, 37007, 27138,
      27931, 28889, 29662, 33853, 37226, 39409, 20098, 21365, 27396, 29211, 34349, 40478, 23888,
      28651, 34253, 35172, 25289, 33240, 34847, 24266, 26391, 28010, 29436, 37070, 20358, 20919,
      21214, 25796, 27347, 29200, 30439, 32769, 34310, 34396, 36335, 38706, 39791, 40442, 30860,
      31103, 32160, 33737, 37636, 40575, 35542, 22751, 24324, 31840, 32894, 29282, 30922, 36034,
      38647, 22744, 23650, 27155, 28122, 28431, 32047, 32311, 38475, 21202, 32907, 20956, 20940,
      31260, 32190, 33777, 38517, 35712, 25295, 27138, 35582, 20025, 23527, 24594, 29575, 30064,
      21271, 30971, 20415, 24489, 19981, 27852, 25976, 32034, 21443, 22622, 30465, 33865, 35498,
      27578, 36784, 27784, 25342, 33509, 25504, 30053, 20142, 20841, 20937, 26753, 31975, 33391,
      35538, 37327, 21237, 21570, 22899, 24300, 26053, 28670, 31018, 38317, 39530, 40599, 40654,
      21147, 26310, 27511, 36706, 24180, 24976, 25088, 25754, 28451, 29001, 29833, 31178, 32244,
      32879, 36646, 34030, 36899, 37706, 21015, 21155, 21693, 28872, 35010, 35498, 24265, 24565,
      25467, 27566, 31806, 29557, 20196, 22265, 23527, 23994, 24604, 29618, 29801, 32666, 32838,
      37428, 38646, 38728, 38936, 20363, 31150, 37300, 38584, 24801, 20102, 20698, 23534, 23615,
      26009, 27138, 29134, 30274, 34044, 36988, 40845, 26248, 38446, 21129, 26491, 26611, 27969,
      28316, 29705, 30041, 30827, 32016, 39006, 20845, 25134, 38520, 20523, 23833, 28138, 36650,
      24459, 24900, 26647, 29575, 38534, 21033, 21519, 23653, 26131, 26446, 26792, 27877, 29702,
      30178, 32633, 35023, 35041, 37324, 38626, 21311, 28346, 21533, 29136, 29848, 34298, 38563,
      40023, 40607, 26519, 28107, 33256, 31435, 31520, 31890, 29376, 28825, 35672, 20160, 33590,
      21050, 20999, 24230, 25299, 31958, 23429, 27934, 26292, 36667, 34892, 38477, 35211, 24275,
      20800, 21952, 22618, 26228, 20958, 29482, 30410, 31036, 31070, 31077, 31119, 38742, 31934,
      32701, 34322, 35576, 36920, 37117, 39151, 39164, 39208, 40372, 37086, 38583, 20398, 20711,
      20813, 21193, 21220, 21329, 21917, 22022, 22120, 22592, 22696, 23652, 23662, 24724, 24936,
      24974, 25074, 25935, 26082, 26257, 26757, 28023, 28186, 28450, 29038, 29227, 29730, 30865,
      31038, 31049, 31048, 31056, 31062, 31069, 31117, 31118, 31296, 31361, 31680, 32244, 32265,
      32321, 32626, 32773, 33261, 33401, 33879, 35088, 35222, 35585, 35641, 36051, 36104, 36790,
      36920, 38627, 38911, 38971, 24693, 148206, 33304, 20006, 20917, 20840, 20352, 20805, 20864,
      21191, 21242, 21917, 21845, 21913, 21986, 22618, 22707, 22852, 22868, 23138, 23336, 24274,
      24281, 24425, 24493, 24792, 24910, 24840, 24974, 24928, 25074, 25140, 25540, 25628, 25682,
      25942, 26228, 26391, 26395, 26454, 27513, 27578, 27969, 28379, 28363, 28450, 28702, 29038,
      30631, 29237, 29359, 29482, 29809, 29958, 30011, 30237, 30239, 30410, 30427, 30452, 30538,
      30528, 30924, 31409, 31680, 31867, 32091, 32244, 32574, 32773, 33618, 33775, 34681, 35137,
      35206, 35222, 35519, 35576, 35531, 35585, 35582, 35565, 35641, 35722, 36104, 36664, 36978,
      37273, 37494, 38524, 38627, 38742, 38875, 38911, 38923, 38971, 39698, 40860, 141386, 141380,
      144341, 15261, 16408, 16441, 152137, 154832, 163539, 40771, 40846, 102, 102, 102, 105, 102,
      108, 102, 102, 105, 102, 102, 108, 115, 116, 1396, 1398, 1396, 1381, 1396, 1387, 1406, 1398,
      1396, 1389, 1497, 1460, 1522, 1463, 1506, 1488, 1491, 1492, 1499, 1500, 1501, 1512, 1514, 43,
      1513, 1473, 1513, 1474, 1513, 1468, 1473, 1513, 1468, 1474, 1488, 1463, 1488, 1464, 1488,
      1468, 1489, 1468, 1490, 1468, 1491, 1468, 1492, 1468, 1493, 1468, 1494, 1468, 1496, 1468,
      1497, 1468, 1498, 1468, 1499, 1468, 1500, 1468, 1502, 1468, 1504, 1468, 1505, 1468, 1507,
      1468, 1508, 1468, 1510, 1468, 1511, 1468, 1512, 1468, 1513, 1468, 1514, 1468, 1493, 1465,
      1489, 1471, 1499, 1471, 1508, 1471, 1488, 1500, 1649, 1659, 1662, 1664, 1658, 1663, 1657,
      1700, 1702, 1668, 1667, 1670, 1671, 1677, 1676, 1678, 1672, 1688, 1681, 1705, 1711, 1715,
      1713, 1722, 1723, 1728, 1729, 1726, 1746, 1747, 1709, 1735, 1734, 1736, 1735, 1652, 1739,
      1733, 1737, 1744, 1609, 1574, 1575, 1574, 1749, 1574, 1608, 1574, 1735, 1574, 1734, 1574,
      1736, 1574, 1744, 1574, 1609, 1740, 1574, 1580, 1574, 1581, 1574, 1605, 1574, 1609, 1574,
      1610, 1576, 1580, 1576, 1581, 1576, 1582, 1576, 1605, 1576, 1609, 1576, 1610, 1578, 1580,
      1578, 1581, 1578, 1582, 1578, 1605, 1578, 1609, 1578, 1610, 1579, 1580, 1579, 1605, 1579,
      1609, 1579, 1610, 1580, 1581, 1580, 1605, 1581, 1580, 1581, 1605, 1582, 1580, 1582, 1581,
      1582, 1605, 1587, 1580, 1587, 1581, 1587, 1582, 1587, 1605, 1589, 1581, 1589, 1605, 1590,
      1580, 1590, 1581, 1590, 1582, 1590, 1605, 1591, 1581, 1591, 1605, 1592, 1605, 1593, 1580,
      1593, 1605, 1594, 1580, 1594, 1605, 1601, 1580, 1601, 1581, 1601, 1582, 1601, 1605, 1601,
      1609, 1601, 1610, 1602, 1581, 1602, 1605, 1602, 1609, 1602, 1610, 1603, 1575, 1603, 1580,
      1603, 1581, 1603, 1582, 1603, 1604, 1603, 1605, 1603, 1609, 1603, 1610, 1604, 1580, 1604,
      1581, 1604, 1582, 1604, 1605, 1604, 1609, 1604, 1610, 1605, 1580, 1605, 1581, 1605, 1582,
      1605, 1605, 1605, 1609, 1605, 1610, 1606, 1580, 1606, 1581, 1606, 1582, 1606, 1605, 1606,
      1609, 1606, 1610, 1607, 1580, 1607, 1605, 1607, 1609, 1607, 1610, 1610, 1580, 1610, 1581,
      1610, 1582, 1610, 1605, 1610, 1609, 1610, 1610, 1584, 1648, 1585, 1648, 1609, 1648, 32, 1612,
      1617, 32, 1613, 1617, 32, 1614, 1617, 32, 1615, 1617, 32, 1616, 1617, 32, 1617, 1648, 1574,
      1585, 1574, 1586, 1574, 1605, 1574, 1606, 1574, 1609, 1574, 1610, 1576, 1585, 1576, 1586,
      1576, 1605, 1576, 1606, 1576, 1609, 1576, 1610, 1578, 1585, 1578, 1586, 1578, 1605, 1578,
      1606, 1578, 1609, 1578, 1610, 1579, 1585, 1579, 1586, 1579, 1605, 1579, 1606, 1579, 1609,
      1579, 1610, 1601, 1609, 1601, 1610, 1602, 1609, 1602, 1610, 1603, 1575, 1603, 1604, 1603,
      1605, 1603, 1609, 1603, 1610, 1604, 1605, 1604, 1609, 1604, 1610, 1605, 1575, 1605, 1605,
      1606, 1585, 1606, 1586, 1606, 1605, 1606, 1606, 1606, 1609, 1606, 1610, 1609, 1648, 1610,
      1585, 1610, 1586, 1610, 1605, 1610, 1606, 1610, 1609, 1610, 1610, 1574, 1580, 1574, 1581,
      1574, 1582, 1574, 1605, 1574, 1607, 1576, 1580, 1576, 1581, 1576, 1582, 1576, 1605, 1576,
      1607, 1578, 1580, 1578, 1581, 1578, 1582, 1578, 1605, 1578, 1607, 1579, 1605, 1580, 1581,
      1580, 1605, 1581, 1580, 1581, 1605, 1582, 1580, 1582, 1605, 1587, 1580, 1587, 1581, 1587,
      1582, 1587, 1605, 1589, 1581, 1589, 1582, 1589, 1605, 1590, 1580, 1590, 1581, 1590, 1582,
      1590, 1605, 1591, 1581, 1592, 1605, 1593, 1580, 1593, 1605, 1594, 1580, 1594, 1605, 1601,
      1580, 1601, 1581, 1601, 1582, 1601, 1605, 1602, 1581, 1602, 1605, 1603, 1580, 1603, 1581,
      1603, 1582, 1603, 1604, 1603, 1605, 1604, 1580, 1604, 1581, 1604, 1582, 1604, 1605, 1604,
      1607, 1605, 1580, 1605, 1581, 1605, 1582, 1605, 1605, 1606, 1580, 1606, 1581, 1606, 1582,
      1606, 1605, 1606, 1607, 1607, 1580, 1607, 1605, 1607, 1648, 1610, 1580, 1610, 1581, 1610,
      1582, 1610, 1605, 1610, 1607, 1574, 1605, 1574, 1607, 1576, 1605, 1576, 1607, 1578, 1605,
      1578, 1607, 1579, 1605, 1579, 1607, 1587, 1605, 1587, 1607, 1588, 1605, 1588, 1607, 1603,
      1604, 1603, 1605, 1604, 1605, 1606, 1605, 1606, 1607, 1610, 1605, 1610, 1607, 1600, 1614,
      1617, 1600, 1615, 1617, 1600, 1616, 1617, 1591, 1609, 1591, 1610, 1593, 1609, 1593, 1610,
      1594, 1609, 1594, 1610, 1587, 1609, 1587, 1610, 1588, 1609, 1588, 1610, 1581, 1609, 1581,
      1610, 1580, 1609, 1580, 1610, 1582, 1609, 1582, 1610, 1589, 1609, 1589, 1610, 1590, 1609,
      1590, 1610, 1588, 1580, 1588, 1581, 1588, 1582, 1588, 1605, 1588, 1585, 1587, 1585, 1589,
      1585, 1590, 1585, 1591, 1609, 1591, 1610, 1593, 1609, 1593, 1610, 1594, 1609, 1594, 1610,
      1587, 1609, 1587, 1610, 1588, 1609, 1588, 1610, 1581, 1609, 1581, 1610, 1580, 1609, 1580,
      1610, 1582, 1609, 1582, 1610, 1589, 1609, 1589, 1610, 1590, 1609, 1590, 1610, 1588, 1580,
      1588, 1581, 1588, 1582, 1588, 1605, 1588, 1585, 1587, 1585, 1589, 1585, 1590, 1585, 1588,
      1580, 1588, 1581, 1588, 1582, 1588, 1605, 1587, 1607, 1588, 1607, 1591, 1605, 1587, 1580,
      1587, 1581, 1587, 1582, 1588, 1580, 1588, 1581, 1588, 1582, 1591, 1605, 1592, 1605, 1575,
      1611, 1578, 1580, 1605, 1578, 1581, 1580, 1578, 1581, 1605, 1578, 1582, 1605, 1578, 1605,
      1580, 1578, 1605, 1581, 1578, 1605, 1582, 1580, 1605, 1581, 1581, 1605, 1610, 1581, 1605,
      1609, 1587, 1581, 1580, 1587, 1580, 1581, 1587, 1580, 1609, 1587, 1605, 1581, 1587, 1605,
      1580, 1587, 1605, 1605, 1589, 1581, 1581, 1589, 1605, 1605, 1588, 1581, 1605, 1588, 1580,
      1610, 1588, 1605, 1582, 1588, 1605, 1605, 1590, 1581, 1609, 1590, 1582, 1605, 1591, 1605,
      1581, 1591, 1605, 1605, 1591, 1605, 1610, 1593, 1580, 1605, 1593, 1605, 1605, 1593, 1605,
      1609, 1594, 1605, 1605, 1594, 1605, 1610, 1594, 1605, 1609, 1601, 1582, 1605, 1602, 1605,
      1581, 1602, 1605, 1605, 1604, 1581, 1605, 1604, 1581, 1610, 1604, 1581, 1609, 1604, 1580,
      1580, 1604, 1582, 1605, 1604, 1605, 1581, 1605, 1581, 1580, 1605, 1581, 1605, 1605, 1581,
      1610, 1605, 1580, 1581, 1605, 1580, 1605, 1605, 1582, 1580, 1605, 1582, 1605, 1605, 1580,
      1582, 1607, 1605, 1580, 1607, 1605, 1605, 1606, 1581, 1605, 1606, 1581, 1609, 1606, 1580,
      1605, 1606, 1580, 1609, 1606, 1605, 1610, 1606, 1605, 1609, 1610, 1605, 1605, 1576, 1582,
      1610, 1578, 1580, 1610, 1578, 1580, 1609, 1578, 1582, 1610, 1578, 1582, 1609, 1578, 1605,
      1610, 1578, 1605, 1609, 1580, 1605, 1610, 1580, 1581, 1609, 1580, 1605, 1609, 1587, 1582,
      1609, 1589, 1581, 1610, 1588, 1581, 1610, 1590, 1581, 1610, 1604, 1580, 1610, 1604, 1605,
      1610, 1610, 1581, 1610, 1610, 1580, 1610, 1610, 1605, 1610, 1605, 1605, 1610, 1602, 1605,
      1610, 1606, 1581, 1610, 1602, 1605, 1581, 1604, 1581, 1605, 1593, 1605, 1610, 1603, 1605,
      1610, 1606, 1580, 1581, 1605, 1582, 1610, 1604, 1580, 1605, 1603, 1605, 1605, 1604, 1580,
      1605, 1606, 1580, 1581, 1580, 1581, 1610, 1581, 1580, 1610, 1605, 1580, 1610, 1601, 1605,
      1610, 1576, 1581, 1610, 1603, 1605, 1605, 1593, 1580, 1605, 1589, 1605, 1605, 1587, 1582,
      1610, 1606, 1580, 1610, 1589, 1604, 1746, 1602, 1604, 1746, 1575, 1604, 1604, 1607, 1575,
      1603, 1576, 1585, 1605, 1581, 1605, 1583, 1589, 1604, 1593, 1605, 1585, 1587, 1608, 1604,
      1593, 1604, 1610, 1607, 1608, 1587, 1604, 1605, 1589, 1604, 1609, 1589, 1604, 1609, 32, 1575,
      1604, 1604, 1607, 32, 1593, 1604, 1610, 1607, 32, 1608, 1587, 1604, 1605, 1580, 1604, 32,
      1580, 1604, 1575, 1604, 1607, 1585, 1740, 1575, 1604, 44, 12289, 58, 59, 33, 63, 12310, 12311,
      8212, 8211, 95, 40, 41, 123, 125, 12308, 12309, 12304, 12305, 12298, 12299, 12296, 12297,
      12300, 12301, 12302, 12303, 91, 93, 32, 773, 95, 44, 12289, 59, 58, 63, 33, 8212, 40, 41, 123,
      125, 12308, 12309, 35, 38, 42, 43, 45, 60, 62, 61, 92, 36, 37, 64, 32, 1611, 1600, 1611, 32,
      1612, 32, 1613, 32, 1614, 1600, 1614, 32, 1615, 1600, 1615, 32, 1616, 1600, 1616, 32, 1617,
      1600, 1617, 32, 1618, 1600, 1618, 1569, 1570, 1571, 1572, 1573, 1574, 1575, 1576, 1577, 1578,
      1579, 1580, 1581, 1582, 1583, 1584, 1585, 1586, 1587, 1588, 1589, 1590, 1591, 1592, 1593,
      1594, 1601, 1602, 1603, 1604, 1605, 1606, 1607, 1608, 1609, 1610, 1604, 1570, 1604, 1571,
      1604, 1573, 1604, 1575, 33, 34, 35, 36, 37, 38, 39, 40, 41, 42, 43, 44, 45, 46, 47, 48, 49,
      50, 51, 52, 53, 54, 55, 56, 57, 58, 59, 60, 61, 62, 63, 64, 97, 98, 99, 100, 101, 102, 103,
      104, 105, 106, 107, 108, 109, 110, 111, 112, 113, 114, 115, 116, 117, 118, 119, 120, 121, 122,
      91, 92, 93, 94, 95, 96, 97, 98, 99, 100, 101, 102, 103, 104, 105, 106, 107, 108, 109, 110,
      111, 112, 113, 114, 115, 116, 117, 118, 119, 120, 121, 122, 123, 124, 125, 126, 10629, 10630,
      46, 12300, 12301, 12289, 12539, 12530, 12449, 12451, 12453, 12455, 12457, 12515, 12517, 12519,
      12483, 12540, 12450, 12452, 12454, 12456, 12458, 12459, 12461, 12463, 12465, 12467, 12469,
      12471, 12473, 12475, 12477, 12479, 12481, 12484, 12486, 12488, 12490, 12491, 12492, 12493,
      12494, 12495, 12498, 12501, 12504, 12507, 12510, 12511, 12512, 12513, 12514, 12516, 12518,
      12520, 12521, 12522, 12523, 12524, 12525, 12527, 12531, 12441, 12442, 4352, 4353, 4522, 4354,
      4524, 4525, 4355, 4356, 4357, 4528, 4529, 4530, 4531, 4532, 4533, 4378, 4358, 4359, 4360,
      4385, 4361, 4362, 4363, 4364, 4365, 4366, 4367, 4368, 4369, 4370, 4449, 4450, 4451, 4452,
      4453, 4454, 4455, 4456, 4457, 4458, 4459, 4460, 4461, 4462, 4463, 4464, 4465, 4466, 4467,
      4468, 4469, 162, 163, 172, 32, 772, 166, 165, 8361, 9474, 8592, 8593, 8594, 8595, 9632, 9675,
      66600, 66601, 66602, 66603, 66604, 66605, 66606, 66607, 66608, 66609, 66610, 66611, 66612,
      66613, 66614, 66615, 66616, 66617, 66618, 66619, 66620, 66621, 66622, 66623, 66624, 66625,
      66626, 66627, 66628, 66629, 66630, 66631, 66632, 66633, 66634, 66635, 66636, 66637, 66638,
      66639, 66776, 66777, 66778, 66779, 66780, 66781, 66782, 66783, 66784, 66785, 66786, 66787,
      66788, 66789, 66790, 66791, 66792, 66793, 66794, 66795, 66796, 66797, 66798, 66799, 66800,
      66801, 66802, 66803, 66804, 66805, 66806, 66807, 66808, 66809, 66810, 66811, 66967, 66968,
      66969, 66970, 66971, 66972, 66973, 66974, 66975, 66976, 66977, 66979, 66980, 66981, 66982,
      66983, 66984, 66985, 66986, 66987, 66988, 66989, 66990, 66991, 66992, 66993, 66995, 66996,
      66997, 66998, 66999, 67000, 67001, 67003, 67004, 720, 721, 230, 665, 595, 675, 43878, 677,
      676, 598, 599, 7569, 600, 606, 681, 612, 610, 608, 667, 295, 668, 615, 644, 682, 683, 620,
      122628, 42894, 622, 122629, 654, 122630, 248, 630, 631, 113, 634, 122632, 637, 638, 640, 680,
      678, 43879, 679, 648, 11377, 655, 673, 674, 664, 448, 449, 450, 122634, 122654, 68800, 68801,
      68802, 68803, 68804, 68805, 68806, 68807, 68808, 68809, 68810, 68811, 68812, 68813, 68814,
      68815, 68816, 68817, 68818, 68819, 68820, 68821, 68822, 68823, 68824, 68825, 68826, 68827,
      68828, 68829, 68830, 68831, 68832, 68833, 68834, 68835, 68836, 68837, 68838, 68839, 68840,
      68841, 68842, 68843, 68844, 68845, 68846, 68847, 68848, 68849, 68850, 71872, 71873, 71874,
      71875, 71876, 71877, 71878, 71879, 71880, 71881, 71882, 71883, 71884, 71885, 71886, 71887,
      71888, 71889, 71890, 71891, 71892, 71893, 71894, 71895, 71896, 71897, 71898, 71899, 71900,
      71901, 71902, 71903, 93792, 93793, 93794, 93795, 93796, 93797, 93798, 93799, 93800, 93801,
      93802, 93803, 93804, 93805, 93806, 93807, 93808, 93809, 93810, 93811, 93812, 93813, 93814,
      93815, 93816, 93817, 93818, 93819, 93820, 93821, 93822, 93823, 119127, 119141, 119128, 119141,
      119128, 119141, 119150, 119128, 119141, 119151, 119128, 119141, 119152, 119128, 119141,
      119153, 119128, 119141, 119154, 119225, 119141, 119226, 119141, 119225, 119141, 119150,
      119226, 119141, 119150, 119225, 119141, 119151, 119226, 119141, 119151, 97, 98, 99, 100, 101,
      102, 103, 104, 105, 106, 107, 108, 109, 110, 111, 112, 113, 114, 115, 116, 117, 118, 119, 120,
      121, 122, 97, 98, 99, 100, 101, 102, 103, 104, 105, 106, 107, 108, 109, 110, 111, 112, 113,
      114, 115, 116, 117, 118, 119, 120, 121, 122, 97, 98, 99, 100, 101, 102, 103, 104, 105, 106,
      107, 108, 109, 110, 111, 112, 113, 114, 115, 116, 117, 118, 119, 120, 121, 122, 97, 98, 99,
      100, 101, 102, 103, 105, 106, 107, 108, 109, 110, 111, 112, 113, 114, 115, 116, 117, 118, 119,
      120, 121, 122, 97, 98, 99, 100, 101, 102, 103, 104, 105, 106, 107, 108, 109, 110, 111, 112,
      113, 114, 115, 116, 117, 118, 119, 120, 121, 122, 97, 98, 99, 100, 101, 102, 103, 104, 105,
      106, 107, 108, 109, 110, 111, 112, 113, 114, 115, 116, 117, 118, 119, 120, 121, 122, 97, 99,
      100, 103, 106, 107, 110, 111, 112, 113, 115, 116, 117, 118, 119, 120, 121, 122, 97, 98, 99,
      100, 102, 104, 105, 106, 107, 108, 109, 110, 112, 113, 114, 115, 116, 117, 118, 119, 120, 121,
      122, 97, 98, 99, 100, 101, 102, 103, 104, 105, 106, 107, 108, 109, 110, 111, 112, 113, 114,
      115, 116, 117, 118, 119, 120, 121, 122, 97, 98, 99, 100, 101, 102, 103, 104, 105, 106, 107,
      108, 109, 110, 111, 112, 113, 114, 115, 116, 117, 118, 119, 120, 121, 122, 97, 98, 100, 101,
      102, 103, 106, 107, 108, 109, 110, 111, 112, 113, 115, 116, 117, 118, 119, 120, 121, 97, 98,
      99, 100, 101, 102, 103, 104, 105, 106, 107, 108, 109, 110, 111, 112, 113, 114, 115, 116, 117,
      118, 119, 120, 121, 122, 97, 98, 100, 101, 102, 103, 105, 106, 107, 108, 109, 111, 115, 116,
      117, 118, 119, 120, 121, 97, 98, 99, 100, 101, 102, 103, 104, 105, 106, 107, 108, 109, 110,
      111, 112, 113, 114, 115, 116, 117, 118, 119, 120, 121, 122, 97, 98, 99, 100, 101, 102, 103,
      104, 105, 106, 107, 108, 109, 110, 111, 112, 113, 114, 115, 116, 117, 118, 119, 120, 121, 122,
      97, 98, 99, 100, 101, 102, 103, 104, 105, 106, 107, 108, 109, 110, 111, 112, 113, 114, 115,
      116, 117, 118, 119, 120, 121, 122, 97, 98, 99, 100, 101, 102, 103, 104, 105, 106, 107, 108,
      109, 110, 111, 112, 113, 114, 115, 116, 117, 118, 119, 120, 121, 122, 97, 98, 99, 100, 101,
      102, 103, 104, 105, 106, 107, 108, 109, 110, 111, 112, 113, 114, 115, 116, 117, 118, 119, 120,
      121, 122, 97, 98, 99, 100, 101, 102, 103, 104, 105, 106, 107, 108, 109, 110, 111, 112, 113,
      114, 115, 116, 117, 118, 119, 120, 121, 122, 97, 98, 99, 100, 101, 102, 103, 104, 105, 106,
      107, 108, 109, 110, 111, 112, 113, 114, 115, 116, 117, 118, 119, 120, 121, 122, 97, 98, 99,
      100, 101, 102, 103, 104, 105, 106, 107, 108, 109, 110, 111, 112, 113, 114, 115, 116, 117, 118,
      119, 120, 121, 122, 97, 98, 99, 100, 101, 102, 103, 104, 105, 106, 107, 108, 109, 110, 111,
      112, 113, 114, 115, 116, 117, 118, 119, 120, 121, 122, 97, 98, 99, 100, 101, 102, 103, 104,
      105, 106, 107, 108, 109, 110, 111, 112, 113, 114, 115, 116, 117, 118, 119, 120, 121, 122, 97,
      98, 99, 100, 101, 102, 103, 104, 105, 106, 107, 108, 109, 110, 111, 112, 113, 114, 115, 116,
      117, 118, 119, 120, 121, 122, 97, 98, 99, 100, 101, 102, 103, 104, 105, 106, 107, 108, 109,
      110, 111, 112, 113, 114, 115, 116, 117, 118, 119, 120, 121, 122, 97, 98, 99, 100, 101, 102,
      103, 104, 105, 106, 107, 108, 109, 110, 111, 112, 113, 114, 115, 116, 117, 118, 119, 120, 121,
      122, 305, 567, 945, 946, 947, 948, 949, 950, 951, 952, 953, 954, 955, 956, 957, 958, 959, 960,
      961, 952, 963, 964, 965, 966, 967, 968, 969, 8711, 945, 946, 947, 948, 949, 950, 951, 952,
      953, 954, 955, 956, 957, 958, 959, 960, 961, 963, 964, 965, 966, 967, 968, 969, 8706, 949,
      952, 954, 966, 961, 960, 945, 946, 947, 948, 949, 950, 951, 952, 953, 954, 955, 956, 957, 958,
      959, 960, 961, 952, 963, 964, 965, 966, 967, 968, 969, 8711, 945, 946, 947, 948, 949, 950,
      951, 952, 953, 954, 955, 956, 957, 958, 959, 960, 961, 963, 964, 965, 966, 967, 968, 969,
      8706, 949, 952, 954, 966, 961, 960, 945, 946, 947, 948, 949, 950, 951, 952, 953, 954, 955,
      956, 957, 958, 959, 960, 961, 952, 963, 964, 965, 966, 967, 968, 969, 8711, 945, 946, 947,
      948, 949, 950, 951, 952, 953, 954, 955, 956, 957, 958, 959, 960, 961, 963, 964, 965, 966, 967,
      968, 969, 8706, 949, 952, 954, 966, 961, 960, 945, 946, 947, 948, 949, 950, 951, 952, 953,
      954, 955, 956, 957, 958, 959, 960, 961, 952, 963, 964, 965, 966, 967, 968, 969, 8711, 945,
      946, 947, 948, 949, 950, 951, 952, 953, 954, 955, 956, 957, 958, 959, 960, 961, 963, 964, 965,
      966, 967, 968, 969, 8706, 949, 952, 954, 966, 961, 960, 945, 946, 947, 948, 949, 950, 951,
      952, 953, 954, 955, 956, 957, 958, 959, 960, 961, 952, 963, 964, 965, 966, 967, 968, 969,
      8711, 945, 946, 947, 948, 949, 950, 951, 952, 953, 954, 955, 956, 957, 958, 959, 960, 961,
      963, 964, 965, 966, 967, 968, 969, 8706, 949, 952, 954, 966, 961, 960, 989, 48, 49, 50, 51,
      52, 53, 54, 55, 56, 57, 48, 49, 50, 51, 52, 53, 54, 55, 56, 57, 48, 49, 50, 51, 52, 53, 54,
      55, 56, 57, 48, 49, 50, 51, 52, 53, 54, 55, 56, 57, 48, 49, 50, 51, 52, 53, 54, 55, 56, 57,
      1072, 1073, 1074, 1075, 1076, 1077, 1078, 1079, 1080, 1082, 1083, 1084, 1086, 1087, 1088,
      1089, 1090, 1091, 1092, 1093, 1094, 1095, 1096, 1099, 1101, 1102, 42633, 1241, 1110, 1112,
      1257, 1199, 1231, 1072, 1073, 1074, 1075, 1076, 1077, 1078, 1079, 1080, 1082, 1083, 1086,
      1087, 1089, 1091, 1092, 1093, 1094, 1095, 1096, 1098, 1099, 1169, 1110, 1109, 1119, 1195,
      42577, 1201, 125218, 125219, 125220, 125221, 125222, 125223, 125224, 125225, 125226, 125227,
      125228, 125229, 125230, 125231, 125232, 125233, 125234, 125235, 125236, 125237, 125238,
      125239, 125240, 125241, 125242, 125243, 125244, 125245, 125246, 125247, 125248, 125249,
      125250, 125251, 1575, 1576, 1580, 1583, 1608, 1586, 1581, 1591, 1610, 1603, 1604, 1605, 1606,
      1587, 1593, 1601, 1589, 1602, 1585, 1588, 1578, 1579, 1582, 1584, 1590, 1592, 1594, 1646,
      1722, 1697, 1647, 1576, 1580, 1607, 1581, 1610, 1603, 1604, 1605, 1606, 1587, 1593, 1601,
      1589, 1602, 1588, 1578, 1579, 1582, 1590, 1594, 1580, 1581, 1610, 1604, 1606, 1587, 1593,
      1589, 1602, 1588, 1582, 1590, 1594, 1722, 1647, 1576, 1580, 1607, 1581, 1591, 1610, 1603,
      1605, 1606, 1587, 1593, 1601, 1589, 1602, 1588, 1578, 1579, 1582, 1590, 1592, 1594, 1646,
      1697, 1575, 1576, 1580, 1583, 1607, 1608, 1586, 1581, 1591, 1610, 1604, 1605, 1606, 1587,
      1593, 1601, 1589, 1602, 1585, 1588, 1578, 1579, 1582, 1584, 1590, 1592, 1594, 1576, 1580,
      1583, 1608, 1586, 1581, 1591, 1610, 1604, 1605, 1606, 1587, 1593, 1601, 1589, 1602, 1585,
      1588, 1578, 1579, 1582, 1584, 1590, 1592, 1594, 48, 44, 49, 44, 50, 44, 51, 44, 52, 44, 53,
      44, 54, 44, 55, 44, 56, 44, 57, 44, 40, 97, 41, 40, 98, 41, 40, 99, 41, 40, 100, 41, 40, 101,
      41, 40, 102, 41, 40, 103, 41, 40, 104, 41, 40, 105, 41, 40, 106, 41, 40, 107, 41, 40, 108, 41,
      40, 109, 41, 40, 110, 41, 40, 111, 41, 40, 112, 41, 40, 113, 41, 40, 114, 41, 40, 115, 41, 40,
      116, 41, 40, 117, 41, 40, 118, 41, 40, 119, 41, 40, 120, 41, 40, 121, 41, 40, 122, 41, 12308,
      115, 12309, 99, 114, 99, 100, 119, 122, 97, 98, 99, 100, 101, 102, 103, 104, 105, 106, 107,
      108, 109, 110, 111, 112, 113, 114, 115, 116, 117, 118, 119, 120, 121, 122, 104, 118, 109, 118,
      115, 100, 115, 115, 112, 112, 118, 119, 99, 109, 99, 109, 100, 109, 114, 100, 106, 12411,
      12363, 12467, 12467, 12469, 25163, 23383, 21452, 12487, 20108, 22810, 35299, 22825, 20132,
      26144, 28961, 26009, 21069, 24460, 20877, 26032, 21021, 32066, 29983, 36009, 22768, 21561,
      28436, 25237, 25429, 19968, 19977, 36938, 24038, 20013, 21491, 25351, 36208, 25171, 31105,
      31354, 21512, 28288, 26377, 26376, 30003, 21106, 21942, 37197, 12308, 26412, 12309, 12308,
      19977, 12309, 12308, 20108, 12309, 12308, 23433, 12309, 12308, 28857, 12309, 12308, 25171,
      12309, 12308, 30423, 12309, 12308, 21213, 12309, 12308, 25943, 12309, 24471, 21487, 48, 49,
      50, 51, 52, 53, 54, 55, 56, 57, 20029, 20024, 20033, 131362, 20320, 20398, 20411, 20482,
      20602, 20633, 20711, 20687, 13470, 132666, 20813, 20820, 20836, 20855, 132380, 13497, 20839,
      20877, 132427, 20887, 20900, 20172, 20908, 20917, 168415, 20981, 20995, 13535, 21051, 21062,
      21106, 21111, 13589, 21191, 21193, 21220, 21242, 21253, 21254, 21271, 21321, 21329, 21338,
      21363, 21373, 21375, 133676, 28784, 21450, 21471, 133987, 21483, 21489, 21510, 21662, 21560,
      21576, 21608, 21666, 21750, 21776, 21843, 21859, 21892, 21913, 21931, 21939, 21954, 22294,
      22022, 22295, 22097, 22132, 20999, 22766, 22478, 22516, 22541, 22411, 22578, 22577, 22700,
      136420, 22770, 22775, 22790, 22810, 22818, 22882, 136872, 136938, 23020, 23067, 23079, 23000,
      23142, 14062, 23304, 23358, 137672, 23491, 23512, 23527, 23539, 138008, 23551, 23558, 23586,
      14209, 23648, 23662, 23744, 23693, 138724, 23875, 138726, 23918, 23915, 23932, 24033, 24034,
      14383, 24061, 24104, 24125, 24169, 14434, 139651, 14460, 24240, 24243, 24246, 24266, 172946,
      24318, 140081, 33281, 24354, 14535, 144056, 156122, 24418, 24427, 14563, 24474, 24525, 24535,
      24569, 24705, 14650, 14620, 24724, 141012, 24775, 24904, 24908, 24910, 24908, 24954, 24974,
      25010, 24996, 25007, 25054, 25074, 25078, 25104, 25115, 25181, 25265, 25300, 25424, 142092,
      25405, 25340, 25448, 25475, 25572, 142321, 25634, 25541, 25513, 14894, 25705, 25726, 25757,
      25719, 14956, 25935, 25964, 143370, 26083, 26360, 26185, 15129, 26257, 15112, 15076, 20882,
      20885, 26368, 26268, 32941, 17369, 26391, 26395, 26401, 26462, 26451, 144323, 15177, 26618,
      26501, 26706, 26757, 144493, 26766, 26655, 26900, 15261, 26946, 27043, 27114, 27304, 145059,
      27355, 15384, 27425, 145575, 27476, 15438, 27506, 27551, 27578, 27579, 146061, 138507, 146170,
      27726, 146620, 27839, 27853, 27751, 27926, 27966, 28023, 27969, 28009, 28024, 28037, 146718,
      27956, 28207, 28270, 15667, 28363, 28359, 147153, 28153, 28526, 147294, 147342, 28614, 28729,
      28702, 28699, 15766, 28746, 28797, 28791, 28845, 132389, 28997, 148067, 29084, 29224, 29237,
      29264, 149000, 29312, 29333, 149301, 149524, 29562, 29579, 16044, 29605, 16056, 29767, 29788,
      29809, 29829, 29898, 16155, 29988, 150582, 30014, 150674, 30064, 139679, 30224, 151457,
      151480, 151620, 16380, 16392, 30452, 151795, 151794, 151833, 151859, 30494, 30495, 30538,
      16441, 30603, 16454, 16534, 152605, 30798, 30860, 30924, 16611, 153126, 31062, 153242, 153285,
      31119, 31211, 16687, 31296, 31306, 31311, 153980, 154279, 16898, 154539, 31686, 31689, 16935,
      154752, 31954, 17056, 31976, 31971, 32000, 155526, 32099, 17153, 32199, 32258, 32325, 17204,
      156200, 156231, 17241, 156377, 32634, 156478, 32661, 32762, 32773, 156890, 156963, 32864,
      157096, 32880, 144223, 17365, 32946, 33027, 17419, 33086, 23221, 157607, 157621, 144275,
      144284, 33281, 33284, 36766, 17515, 33425, 33419, 33437, 21171, 33457, 33459, 33469, 33510,
      158524, 33509, 33565, 33635, 33709, 33571, 33725, 33767, 33879, 33619, 33738, 33740, 33756,
      158774, 159083, 158933, 17707, 34033, 34035, 34070, 160714, 34148, 159532, 17757, 17761,
      159665, 159954, 17771, 34384, 34396, 34407, 34409, 34473, 34440, 34574, 34530, 34681, 34600,
      34667, 34694, 34785, 34817, 17913, 34912, 34915, 161383, 35031, 35038, 17973, 35066, 13499,
      161966, 162150, 18110, 18119, 35488, 35565, 35722, 35925, 162984, 36011, 36033, 36123, 36215,
      163631, 133124, 36299, 36284, 36336, 133342, 36564, 36664, 165330, 165357, 37012, 37105,
      37137, 165678, 37147, 37432, 37591, 37592, 37500, 37881, 37909, 166906, 38283, 18837, 38327,
      167287, 18918, 38595, 23986, 38691, 168261, 168474, 19054, 19062, 38880, 168970, 19122,
      169110, 38923, 38953, 169398, 39138, 19251, 39209, 39335, 39362, 39422, 19406, 170800, 39698,
      40000, 40189, 19662, 19693, 40295, 172238, 19704, 172293, 172558, 172689, 40635, 19798, 40697,
      40702, 40709, 40719, 40726, 40763, 173568>>
(***************************************************************************)
(* idna 3.4: the labels of a host name (idna/core.py), on code points      *)
(***************************************************************************)
\* _is_script(cp, script)
IsScript(c, script) == intranges_contain(c, script)

\* check_hyphen_ok(label) does not raise
check_hyphen_ok(label) ==
    /\ ~(Len(label) >= 4 /\ label[3] = 45 /\ label[4] = 45)
    /\ label[1] # 45
    /\ label[Len(label)] # 45

\* _combining_class(cp) raises ValueError: the class is 0 and the code point
\* has no name
CombiningClassRaises(c) == combining(c) = 0 /\ ~HasName(c)

\* the joining type of a code point, "" when it has none
JoiningType(c) == ValueAt(joining_types, c, "")

\* valid_contextj(label, pos) returns True, pos counted from 1; it raises or
\* returns False otherwise
valid_contextj(label, pos) ==
    LET virama == pos > 1 /\ combining(label[pos - 1]) = 9
    IN  /\ ~(pos > 1 /\ CombiningClassRaises(label[pos - 1]))
        /\ IF label[pos] = 8204
           THEN \/ virama
                \/ /\ \E i \in 1..(pos - 1) : JoiningType(label[i]) \in {"L", "D"}
                   /\ \E i \in (pos + 1)..Len(label) : JoiningType(label[i]) \in {"R", "D"}
           ELSE label[pos] = 8205 /\ virama

\* valid_contexto(label, pos), pos counted from 1
valid_contexto(label, pos) ==
    LET c == label[pos]
    IN  IF c = 183
        THEN pos > 1 /\ pos < Len(label) /\ label[pos - 1] = 108 /\ label[pos + 1] = 108
        ELSE IF c = 885
        THEN pos < Len(label) /\ IsScript(label[pos + 1], ScriptGreek)
        ELSE IF c = 1523 \/ c = 1524
        THEN pos > 1 /\ IsScript(label[pos - 1], ScriptHebrew)
        ELSE IF c = 12539
        THEN \E i \in 1..Len(label) :
                /\ label[i] # 12539
                /\ \/ IsScript(label[i], ScriptHiragana)
                   \/ IsScript(label[i], ScriptKatakana)
                   \/ IsScript(label[i], ScriptHan)
        ELSE IF c >= 1632 /\ c <= 1641
        THEN \A i \in 1..Len(label) : ~(label[i] >= 1776 /\ label[i] <= 1785)
        ELSE IF c >= 1776 /\ c <= 1785
        THEN \A i \in 1..Len(label) : ~(label[i] >= 1632 /\ label[i] <= 1641)
        ELSE FALSE

\* the loop of check_label lets the code point at pos through
ValidCodepoint(label, pos) ==
    IF intranges_contain(label[pos], PVALID) THEN TRUE
    ELSE IF intranges_contain(label[pos], CONTEXTJ) THEN valid_contextj(label, pos)
    ELSE IF intranges_contain(label[pos], CONTEXTO) THEN valid_contexto(label, pos)
    ELSE FALSE

\* the place of the last code point of label whose direction is not NSM, 0
\* when there is none
LastSpacing(label) ==
    IF \E i \in 1..Len(label) : bidirectional(label[i]) # "NSM"
    THEN CHOOSE i \in 1..Len(label) :
            /\ bidirectional(label[i]) # "NSM"
            /\ \A k \in (i + 1)..Len(label) : bidirectional(label[k]) = "NSM"
    ELSE 0

\* check_bidi(label) does not raise, label not empty
check_bidi(label) ==
    LET dir == [i \in 1..Len(label) |-> bidirectional(label[i])]
        last == LastSpacing(label)
    IN  /\ \A i \in 1..Len(label) : dir[i] # ""
        /\ (\E i \in 1..Len(label) : dir[i] \in {"R", "AL", "AN"}) =>
              /\ dir[1] \in {"R", "AL", "L"}
              /\ IF dir[1] \in {"R", "AL"}
                 THEN /\ \A i \in 1..Len(label) :
                            dir[i] \in {"R", "AL", "AN", "EN", "ES", "CS", "ET", "ON", "BN", "NSM"}
                      /\ ~(\E i, k \in 1..Len(label) : dir[i] = "AN" /\ dir[k] = "EN")
                      /\ dir[last] \in {"R", "AL", "EN", "AN"}
                 ELSE /\ \A i \in 1..Len(label) :
                            dir[i] \in {"L", "EN", "ES", "CS", "ET", "ON", "BN", "NSM"}
                      /\ dir[last] \in {"L", "EN"}

\* check_label(label) does not raise
check_label(label) ==
    /\ Len(label) > 0
    /\ NFC(label) = label
    /\ check_hyphen_ok(label)
    /\ ~IsMark(label[1])
    /\ \A pos \in 1..Len(label) : ValidCodepoint(label, pos)
    /\ check_bidi(label)

\* 'xn--'
AlabelPrefix == <<120, 110, 45, 45>>

\* ulabel(label_bytes) of an ASCII label gets as far as check_label: an
\* A-label in lower case has something that ends with no '-' behind its
\* prefix, and punycode decodes it
UlabelDecodes(lower) ==
    (Len(lower) >= 4 /\ SubSeq(lower, 1, 4) = AlabelPrefix) =>
        \E rest \in {SubSeq(lower, 5, Len(lower))} :
            /\ rest # <<>>
            /\ rest[Len(rest)] # 45
            /\ punycode_decode(rest).ok

\* the label alabel has check_label look at: a label beyond ASCII itself, of
\* an ASCII label, in ulabel, its lower case or what the A-label decodes to
CheckedLabel(label) ==
    IF \E i \in 1..Len(label) : label[i] >= 128 THEN label
    ELSE IF Len(label) >= 4 /\ SubSeq(LowerAscii(label), 1, 4) = AlabelPrefix
    THEN punycode_decode(SubSeq(LowerAscii(label), 5, Len(label))).text
    ELSE LowerAscii(label)

\* alabel(label), checked telling whether check_label takes CheckedLabel(label)
\* and encoded the A-label punycode makes: an ASCII label stays as it is. No
\* more than 63 bytes make a label (valid_label_length), and punycode writes
\* at least one byte for a code point
AlabelChecked(label, checked, encoded) ==
    IF \A i \in 1..Len(label) : label[i] < 128
    THEN [ok |-> Len(label) <= 63 /\ UlabelDecodes(LowerAscii(label)) /\ checked,
          out |-> label]
    ELSE [ok |-> checked /\ Len(label) <= 59 /\ Len(encoded) <= 63, out |-> encoded]

\* alabel(label): ok when it does not raise, and then the A-label
alabel(label) ==
    AlabelChecked(label, check_label(CheckedLabel(label)),
                  AlabelPrefix \o punycode_encode(label))

\* uts46_remap at a code point of row r of uts46data, with std3_rules and
\* transitional False: the code point (status V, D, or 3 without a
\* replacement), its replacement (status M or 3), nothing (status I); not ok
\* for any other row
Uts46Row(c, status, from, to) ==
    IF status \in {"V", "D"} \/ (status = "3" /\ from = 0)
    THEN [ok |-> TRUE, out |-> <<c>>]
    ELSE IF from > 0 /\ status \in {"M", "3"}
    THEN [ok |-> TRUE, out |-> SubSeq(uts46_mapped, from, to)]
    ELSE [ok |-> status = "I", out |-> <<>>]

Uts46At(c) ==
    Uts46Row(c, Cell(uts46data, 4, RowAt(uts46data, 4, c), 2),
             Cell(uts46data, 4, RowAt(uts46data, 4, c), 3),
             Cell(uts46data, 4, RowAt(uts46data, 4, c), 4))

\* what the code points lo..hi of domain are mapped to
RECURSIVE Uts46Run(_, _, _)
Uts46Run(domain, lo, hi) ==
    IF lo > hi THEN <<>>
    ELSE IF lo = hi THEN Uts46At(domain[lo]).out
    ELSE Uts46Run(domain, lo, (lo + hi) \div 2) \o Uts46Run(domain, ((lo + hi) \div 2) + 1, hi)

\* uts46_remap(domain, False, False)
uts46_remap(domain) ==
    [ok |-> \A i \in 1..Len(domain) : Uts46At(domain[i]).ok,
     out |-> NFC(Uts46Run(domain, 1, Len(domain)))]

\* s cut at the code points of dots
SplitAt(s, dots) ==
    LET cuts == {i \in 1..Len(s) : s[i] \in dots}
        n == Cardinality(cuts)
        Cut(k) == IF k = 0 THEN 0
                  ELSE IF k = n + 1 THEN Len(s) + 1
                  ELSE CHOOSE i \in cuts : Cardinality({j \in cuts : j <= i}) = k
    IN  [k \in 1..(n + 1) |-> SubSeq(s, Cut(k - 1) + 1, Cut(k) - 1)]

\* two encoded parts and what stands between them
JoinedOutcomes(a, between, b) == [ok |-> a.ok /\ b.ok, out |-> a.out \o between \o b.out]

\* the A-labels of the labels lo..hi, a '.' between them: ok when alabel
\* raises on none
RECURSIVE JoinedLabels(_, _, _)
JoinedLabels(labels, lo, hi) ==
    IF lo > hi THEN [ok |-> TRUE, out |-> <<>>]
    ELSE IF lo = hi THEN alabel(labels[lo])
    ELSE JoinedOutcomes(JoinedLabels(labels, lo, (lo + hi) \div 2), <<46>>,
                        JoinedLabels(labels, ((lo + hi) \div 2) + 1, hi))

\* the end of idna.encode: the joined A-labels, a '.' behind them when the
\* last label was empty, are no longer than 253 bytes, 254 with that dot
EncodedJoined(ok, trailing_dot, joined) ==
    IF trailing_dot
    THEN [ok |-> ok /\ joined.ok /\ Len(joined.out \o <<46>>) <= 254,
          out |-> joined.out \o <<46>>]
    ELSE [ok |-> ok /\ joined.ok /\ Len(joined.out) <= 253, out |-> joined.out]

\* the labels of idna.encode: not the one empty label of an empty domain; an
\* empty last label is a trailing dot, every other label has its A-label
EncodedLabels(remapped, all) ==
    EncodedJoined(remapped.ok /\ all # <<<<>>>>,
                  all[Len(all)] = <<>>,
                  JoinedLabels(all, 1, IF all[Len(all)] = <<>> THEN Len(all) - 1 ELSE Len(all)))

\* the remapped domain is cut at the dots _unicode_dots_re takes
EncodedDomain(remapped) ==
    EncodedLabels(remapped, SplitAt(remapped.out, {46, 12290, 65294, 65377}))

\* idna.encode(s, uts46=True)
idna_encode(s) == EncodedDomain(uts46_remap(s))

\* code points and whether they were made, as characters
AsChars(encoded) == [ok |-> encoded.ok, out |-> Chars(encoded.out)]

\* urllib3's _idna_encode(name), a label of the host: a label with a character
\* beyond ASCII goes in lower case through idna.encode(strict=True), which
\* takes it as one label; any other label is put in lower case
urllib3_idna_encode(name) ==
    IF unicode_is_ascii(name) THEN [ok |-> TRUE, out |-> LowerStr(name)]
    ELSE AsChars(alabel(CodePoints(LowerStr(name))))

\* the labels lo..hi of a host as _idna_encode writes them, a '.' between
\* them: ok when it raises on none
RECURSIVE IdnaLabels(_, _, _)
IdnaLabels(labels, lo, hi) ==
    IF lo = hi THEN urllib3_idna_encode(labels[lo])
    ELSE JoinedOutcomes(IdnaLabels(labels, lo, (lo + hi) \div 2), <<".">>,
                        IdnaLabels(labels, ((lo + hi) \div 2) + 1, hi))

(***************************************************************************)
(* URLs as requests sends them                                             *)
(***************************************************************************)
S_http == <<"h","t","t","p">>
S_https == <<"h","t","t","p","s">>

\* urllib3's UNRESERVED_CHARS
UnreservedChars == Letters \cup Range(Digits) \cup {".", "_", "-", "~"}

\* position i of s starts an escape: '%' and two hex digits
EscapeStarts(s, i) ==
    s[i] = "%" /\ i + 2 <= Len(s) /\ s[i + 1] \in HexDigits /\ s[i + 2] \in HexDigits

\* every "%" of s starts an escape of two hex digits
PercentEscaped(s) ==
    \A i \in 1..Len(s) :
        s[i] = "%" => (i + 2 <= Len(s) /\ s[i + 1] \in HexDigits /\ s[i + 2] \in HexDigits)

\* urllib3's REG_NAME_PAT matches the whole of s
IsRegName(s) ==
    /\ \A i \in 1..Len(s) : s[i] \notin {"[", "]", ":", "/", "?", "#"}
    /\ PercentEscaped(s)

\* urllib3's IPV6_ADDRZ_PAT matches the whole of s, brackets included: an
\* address and possibly '%' and a zone id of unreserved characters and escapes
IsIPv6Addrz(s) ==
    LET inner == SubSeq(s, 2, Len(s) - 1)
        zone == PartAfter(inner, "%")
    IN  /\ Len(s) >= 2 /\ s[1] = "[" /\ s[Len(s)] = "]"
        /\ IPv6Groups(PartBefore(inner, "%"), FALSE)
        /\ FindChar(inner, "%") > 0 =>
              /\ zone # <<>>
              /\ \A i \in 1..Len(zone) : zone[i] \in UnreservedChars \cup {"%"}
              /\ PercentEscaped(zone)

\* int(h, 16) of two hex digits
HexByte(h) ==
    LET hex == Digits \o SubSeq(LowerLetters, 1, 6)
        V(c) == (CHOOSE i \in 1..16 : hex[i] = LowerChar(c)) - 1
    IN  16 * V(h[1]) + V(h[2])

\* chr(n) when it is an unreserved character, '' otherwise
UnreservedAt(n) ==
    IF n \in 48..57 THEN <<Digits[n - 47]>>
    ELSE IF n \in 65..90 THEN <<UpperLetters[n - 64]>>
    ELSE IF n \in 97..122 THEN <<LowerLetters[n - 96]>>
    ELSE IF n = 45 THEN <<"-">>
    ELSE IF n = 46 THEN <<".">>
    ELSE IF n = 95 THEN <<"_">>
    ELSE IF n = 126 THEN <<"~">>
    ELSE <<>>

\* the characters beyond ASCII for which str.isalnum() holds: rows start, end
\* of ranges of code points, end excluded
AlnumRanges ==
    <<170, 171, 178, 180, 181, 182, 185, 187, 188, 191, 192, 215, 216, 247, 248, 706, 710, 722, 736,
      741, 748, 749, 750, 751, 880, 885, 886, 888, 890, 894, 895, 896, 902, 903, 904, 907, 908, 909,
      910, 930, 931, 1014, 1015, 1154, 1162, 1328, 1329, 1367, 1369, 1370, 1376, 1417, 1488, 1515,
      1519, 1523, 1568, 1611, 1632, 1642, 1646, 1648, 1649, 1748, 1749, 1750, 1765, 1767, 1774,
      1789, 1791, 1792, 1808, 1809, 1810, 1840, 1869, 1958, 1969, 1970, 1984, 2027, 2036, 2038,
      2042, 2043, 2048, 2070, 2074, 2075, 2084, 2085, 2088, 2089, 2112, 2137, 2144, 2155, 2160,
      2184, 2185, 2191, 2208, 2250, 2308, 2362, 2365, 2366, 2384, 2385, 2392, 2402, 2406, 2416,
      2417, 2433, 2437, 2445, 2447, 2449, 2451, 2473, 2474, 2481, 2482, 2483, 2486, 2490, 2493,
      2494, 2510, 2511, 2524, 2526, 2527, 2530, 2534, 2546, 2548, 2554, 2556, 2557, 2565, 2571,
      2575, 2577, 2579, 2601, 2602, 2609, 2610, 2612, 2613, 2615, 2616, 2618, 2649, 2653, 2654,
      2655, 2662, 2672, 2674, 2677, 2693, 2702, 2703, 2706, 2707, 2729, 2730, 2737, 2738, 2740,
      2741, 2746, 2749, 2750, 2768, 2769, 2784, 2786, 2790, 2800, 2809, 2810, 2821, 2829, 2831,
      2833, 2835, 2857, 2858, 2865, 2866, 2868, 2869, 2874, 2877, 2878, 2908, 2910, 2911, 2914,
      2918, 2928, 2929, 2936, 2947, 2948, 2949, 2955, 2958, 2961, 2962, 2966, 2969, 2971, 2972,
      2973, 2974, 2976, 2979, 2981, 2984, 2987, 2990, 3002, 3024, 3025, 3046, 3059, 3077, 3085,
      3086, 3089, 3090, 3113, 3114, 3130, 3133, 3134, 3160, 3163, 3165, 3166, 3168, 3170, 3174,
      3184, 3192, 3199, 3200, 3201, 3205, 3213, 3214, 3217, 3218, 3241, 3242, 3252, 3253, 3258,
      3261, 3262, 3293, 3295, 3296, 3298, 3302, 3312, 3313, 3315, 3332, 3341, 3342, 3345, 3346,
      3387, 3389, 3390, 3406, 3407, 3412, 3415, 3416, 3426, 3430, 3449, 3450, 3456, 3461, 3479,
      3482, 3506, 3507, 3516, 3517, 3518, 3520, 3527, 3558, 3568, 3585, 3633, 3634, 3636, 3648,
      3655, 3664, 3674, 3713, 3715, 3716, 3717, 3718, 3723, 3724, 3748, 3749, 3750, 3751, 3761,
      3762, 3764, 3773, 3774, 3776, 3781, 3782, 3783, 3792, 3802, 3804, 3808, 3840, 3841, 3872,
      3892, 3904, 3912, 3913, 3949, 3976, 3981, 4096, 4139, 4159, 4170, 4176, 4182, 4186, 4190,
      4193, 4194, 4197, 4199, 4206, 4209, 4213, 4226, 4238, 4239, 4240, 4250, 4256, 4294, 4295,
      4296, 4301, 4302, 4304, 4347, 4348, 4681, 4682, 4686, 4688, 4695, 4696, 4697, 4698, 4702,
      4704, 4745, 4746, 4750, 4752, 4785, 4786, 4790, 4792, 4799, 4800, 4801, 4802, 4806, 4808,
      4823, 4824, 4881, 4882, 4886, 4888, 4955, 4969, 4989, 4992, 5008, 5024, 5110, 5112, 5118,
      5121, 5741, 5743, 5760, 5761, 5787, 5792, 5867, 5870, 5881, 5888, 5906, 5919, 5938, 5952,
      5970, 5984, 5997, 5998, 6001, 6016, 6068, 6103, 6104, 6108, 6109, 6112, 6122, 6128, 6138,
      6160, 6170, 6176, 6265, 6272, 6277, 6279, 6313, 6314, 6315, 6320, 6390, 6400, 6431, 6470,
      6510, 6512, 6517, 6528, 6572, 6576, 6602, 6608, 6619, 6656, 6679, 6688, 6741, 6784, 6794,
      6800, 6810, 6823, 6824, 6917, 6964, 6981, 6989, 6992, 7002, 7043, 7073, 7086, 7142, 7168,
      7204, 7232, 7242, 7245, 7294, 7296, 7305, 7312, 7355, 7357, 7360, 7401, 7405, 7406, 7412,
      7413, 7415, 7418, 7419, 7424, 7616, 7680, 7958, 7960, 7966, 7968, 8006, 8008, 8014, 8016,
      8024, 8025, 8026, 8027, 8028, 8029, 8030, 8031, 8062, 8064, 8117, 8118, 8125, 8126, 8127,
      8130, 8133, 8134, 8141, 8144, 8148, 8150, 8156, 8160, 8173, 8178, 8181, 8182, 8189, 8304,
      8306, 8308, 8314, 8319, 8330, 8336, 8349, 8450, 8451, 8455, 8456, 8458, 8468, 8469, 8470,
      8473, 8478, 8484, 8485, 8486, 8487, 8488, 8489, 8490, 8494, 8495, 8506, 8508, 8512, 8517,
      8522, 8526, 8527, 8528, 8586, 9312, 9372, 9450, 9472, 10102, 10132, 11264, 11493, 11499,
      11503, 11506, 11508, 11517, 11518, 11520, 11558, 11559, 11560, 11565, 11566, 11568, 11624,
      11631, 11632, 11648, 11671, 11680, 11687, 11688, 11695, 11696, 11703, 11704, 11711, 11712,
      11719, 11720, 11727, 11728, 11735, 11736, 11743, 11823, 11824, 12293, 12296, 12321, 12330,
      12337, 12342, 12344, 12349, 12353, 12439, 12445, 12448, 12449, 12539, 12540, 12544, 12549,
      12592, 12593, 12687, 12690, 12694, 12704, 12736, 12784, 12800, 12832, 12842, 12872, 12880,
      12881, 12896, 12928, 12938, 12977, 12992, 13312, 19904, 19968, 42125, 42192, 42238, 42240,
      42509, 42512, 42540, 42560, 42607, 42623, 42654, 42656, 42736, 42775, 42784, 42786, 42889,
      42891, 42955, 42960, 42962, 42963, 42964, 42965, 42970, 42994, 43010, 43011, 43014, 43015,
      43019, 43020, 43043, 43056, 43062, 43072, 43124, 43138, 43188, 43216, 43226, 43250, 43256,
      43259, 43260, 43261, 43263, 43264, 43302, 43312, 43335, 43360, 43389, 43396, 43443, 43471,
      43482, 43488, 43493, 43494, 43519, 43520, 43561, 43584, 43587, 43588, 43596, 43600, 43610,
      43616, 43639, 43642, 43643, 43646, 43696, 43697, 43698, 43701, 43703, 43705, 43710, 43712,
      43713, 43714, 43715, 43739, 43742, 43744, 43755, 43762, 43765, 43777, 43783, 43785, 43791,
      43793, 43799, 43808, 43815, 43816, 43823, 43824, 43867, 43868, 43882, 43888, 44003, 44016,
      44026, 44032, 55204, 55216, 55239, 55243, 55292, 63744, 64110, 64112, 64218, 64256, 64263,
      64275, 64280, 64285, 64286, 64287, 64297, 64298, 64311, 64312, 64317, 64318, 64319, 64320,
      64322, 64323, 64325, 64326, 64434, 64467, 64830, 64848, 64912, 64914, 64968, 65008, 65020,
      65136, 65141, 65142, 65277, 65296, 65306, 65313, 65339, 65345, 65371, 65382, 65471, 65474,
      65480, 65482, 65488, 65490, 65496, 65498, 65501, 65536, 65548, 65549, 65575, 65576, 65595,
      65596, 65598, 65599, 65614, 65616, 65630, 65664, 65787, 65799, 65844, 65856, 65913, 65930,
      65932, 66176, 66205, 66208, 66257, 66273, 66300, 66304, 66340, 66349, 66379, 66384, 66422,
      66432, 66462, 66464, 66500, 66504, 66512, 66513, 66518, 66560, 66718, 66720, 66730, 66736,
      66772, 66776, 66812, 66816, 66856, 66864, 66916, 66928, 66939, 66940, 66955, 66956, 66963,
      66964, 66966, 66967, 66978, 66979, 66994, 66995, 67002, 67003, 67005, 67072, 67383, 67392,
      67414, 67424, 67432, 67456, 67462, 67463, 67505, 67506, 67515, 67584, 67590, 67592, 67593,
      67594, 67638, 67639, 67641, 67644, 67645, 67647, 67670, 67672, 67703, 67705, 67743, 67751,
      67760, 67808, 67827, 67828, 67830, 67835, 67868, 67872, 67898, 67968, 68024, 68028, 68048,
      68050, 68097, 68112, 68116, 68117, 68120, 68121, 68150, 68160, 68169, 68192, 68223, 68224,
      68256, 68288, 68296, 68297, 68325, 68331, 68336, 68352, 68406, 68416, 68438, 68440, 68467,
      68472, 68498, 68521, 68528, 68608, 68681, 68736, 68787, 68800, 68851, 68858, 68900, 68912,
      68922, 69216, 69247, 69248, 69290, 69296, 69298, 69376, 69416, 69424, 69446, 69457, 69461,
      69488, 69506, 69552, 69580, 69600, 69623, 69635, 69688, 69714, 69744, 69745, 69747, 69749,
      69750, 69763, 69808, 69840, 69865, 69872, 69882, 69891, 69927, 69942, 69952, 69956, 69957,
      69959, 69960, 69968, 70003, 70006, 70007, 70019, 70067, 70081, 70085, 70096, 70107, 70108,
      70109, 70113, 70133, 70144, 70162, 70163, 70188, 70272, 70279, 70280, 70281, 70282, 70286,
      70287, 70302, 70303, 70313, 70320, 70367, 70384, 70394, 70405, 70413, 70415, 70417, 70419,
      70441, 70442, 70449, 70450, 70452, 70453, 70458, 70461, 70462, 70480, 70481, 70493, 70498,
      70656, 70709, 70727, 70731, 70736, 70746, 70751, 70754, 70784, 70832, 70852, 70854, 70855,
      70856, 70864, 70874, 71040, 71087, 71128, 71132, 71168, 71216, 71236, 71237, 71248, 71258,
      71296, 71339, 71352, 71353, 71360, 71370, 71424, 71451, 71472, 71484, 71488, 71495, 71680,
      71724, 71840, 71923, 71935, 71943, 71945, 71946, 71948, 71956, 71957, 71959, 71960, 71984,
      71999, 72000, 72001, 72002, 72016, 72026, 72096, 72104, 72106, 72145, 72161, 72162, 72163,
      72164, 72192, 72193, 72203, 72243, 72250, 72251, 72272, 72273, 72284, 72330, 72349, 72350,
      72368, 72441, 72704, 72713, 72714, 72751, 72768, 72769, 72784, 72813, 72818, 72848, 72960,
      72967, 72968, 72970, 72971, 73009, 73030, 73031, 73040, 73050, 73056, 73062, 73063, 73065,
      73066, 73098, 73112, 73113, 73120, 73130, 73440, 73459, 73648, 73649, 73664, 73685, 73728,
      74650, 74752, 74863, 74880, 75076, 77712, 77809, 77824, 78895, 82944, 83527, 92160, 92729,
      92736, 92767, 92768, 92778, 92784, 92863, 92864, 92874, 92880, 92910, 92928, 92976, 92992,
      92996, 93008, 93018, 93019, 93026, 93027, 93048, 93053, 93072, 93760, 93847, 93952, 94027,
      94032, 94033, 94099, 94112, 94176, 94178, 94179, 94180, 94208, 100344, 100352, 101590, 101632,
      101641, 110576, 110580, 110581, 110588, 110589, 110591, 110592, 110883, 110928, 110931,
      110948, 110952, 110960, 111356, 113664, 113771, 113776, 113789, 113792, 113801, 113808,
      113818, 119520, 119540, 119648, 119673, 119808, 119893, 119894, 119965, 119966, 119968,
      119970, 119971, 119973, 119975, 119977, 119981, 119982, 119994, 119995, 119996, 119997,
      120004, 120005, 120070, 120071, 120075, 120077, 120085, 120086, 120093, 120094, 120122,
      120123, 120127, 120128, 120133, 120134, 120135, 120138, 120145, 120146, 120486, 120488,
      120513, 120514, 120539, 120540, 120571, 120572, 120597, 120598, 120629, 120630, 120655,
      120656, 120687, 120688, 120713, 120714, 120745, 120746, 120771, 120772, 120780, 120782,
      120832, 122624, 122655, 123136, 123181, 123191, 123198, 123200, 123210, 123214, 123215,
      123536, 123566, 123584, 123628, 123632, 123642, 124896, 124903, 124904, 124908, 124909,
      124911, 124912, 124927, 124928, 125125, 125127, 125136, 125184, 125252, 125259, 125260,
      125264, 125274, 126065, 126124, 126125, 126128, 126129, 126133, 126209, 126254, 126255,
      126270, 126464, 126468, 126469, 126496, 126497, 126499, 126500, 126501, 126503, 126504,
      126505, 126515, 126516, 126520, 126521, 126522, 126523, 126524, 126530, 126531, 126535,
      126536, 126537, 126538, 126539, 126540, 126541, 126544, 126545, 126547, 126548, 126549,
      126551, 126552, 126553, 126554, 126555, 126556, 126557, 126558, 126559, 126560, 126561,
      126563, 126564, 126565, 126567, 126571, 126572, 126579, 126580, 126584, 126585, 126589,
      126590, 126591, 126592, 126602, 126603, 126620, 126625, 126628, 126629, 126634, 126635,
      126652, 127232, 127245, 130032, 130042, 131072, 173792, 173824, 177977, 177984, 178206,
      178208, 183970, 183984, 191457, 194560, 195102, 196608, 201547>>

\* the decimal digits beyond ASCII, which int() reads as digits: runs of the
\* digits 0 to 9 of a script, as rows start, end of ranges, end excluded
DecimalDigitRanges ==
    <<1632, 1642, 1776, 1786, 1984, 1994, 2406, 2416, 2534, 2544, 2662, 2672, 2790, 2800, 2918,
      2928, 3046, 3056, 3174, 3184, 3302, 3312, 3430, 3440, 3558, 3568, 3664, 3674, 3792, 3802,
      3872, 3882, 4160, 4170, 4240, 4250, 6112, 6122, 6160, 6170, 6470, 6480, 6608, 6618, 6784,
      6794, 6800, 6810, 6992, 7002, 7088, 7098, 7232, 7242, 7248, 7258, 42528, 42538, 43216, 43226,
      43264, 43274, 43472, 43482, 43504, 43514, 43600, 43610, 44016, 44026, 65296, 65306, 66720,
      66730, 68912, 68922, 69734, 69744, 69872, 69882, 69942, 69952, 70096, 70106, 70384, 70394,
      70736, 70746, 70864, 70874, 71248, 71258, 71360, 71370, 71472, 71482, 71904, 71914, 72016,
      72026, 72784, 72794, 73040, 73050, 73120, 73130, 92768, 92778, 92864, 92874, 93008, 93018,
      120782, 120832, 123200, 123210, 123632, 123642, 125264, 125274, 130032, 130042>>

\* str.isalnum() of one character
isalnum(c) ==
    IF IsAsciiChar(c) THEN c \in Letters \cup Range(Digits)
    ELSE intranges_contain(Ord(c), AlnumRanges)

\* the digit int(h, 16) reads in c: a hex digit or a decimal digit of any
\* script, -1 when c is none
DigitOf(c) ==
    IF c \in HexDigits THEN HexByte(<<"0", c>>)
    ELSE IF ~IsAsciiChar(c) /\ intranges_contain(Ord(c), DecimalDigitRanges)
    THEN (Ord(c) - Cell(DecimalDigitRanges, 2, RangeAt(DecimalDigitRanges, 2, Ord(c)), 1)) % 10
    ELSE -1

\* position i of s is a '%' with h = parts[i][0:2] of two characters after
\* it, and h.isalnum()
AlnumAfter(s, i) ==
    s[i] = "%" /\ i + 2 <= Len(s) /\ isalnum(s[i + 1]) /\ isalnum(s[i + 2])

\* requests.utils.unquote_unreserved raises InvalidURL: a '%' is followed by
\* two alphanumeric characters that int(h, 16) does not read
UnquoteRaises(s) ==
    \E i \in 1..(Len(s) - 2) :
        AlnumAfter(s, i) /\ (DigitOf(s[i + 1]) < 0 \/ DigitOf(s[i + 2]) < 0)

\* position i of s starts the escape of an unreserved character
UnreservedEscape(s, i) ==
    /\ AlnumAfter(s, i)
    /\ UnreservedAt(16 * DigitOf(s[i + 1]) + DigitOf(s[i + 2])) # <<>>

\* what unquote_unreserved leaves of position i of s
UnquotedUnreservedAt(s, i) ==
    IF UnreservedEscape(s, i)
    THEN UnreservedAt(16 * DigitOf(s[i + 1]) + DigitOf(s[i + 2]))
    ELSE IF (i > 1 /\ UnreservedEscape(s, i - 1)) \/ (i > 2 /\ UnreservedEscape(s, i - 2))
    THEN <<>>
    ELSE <<s[i]>>

RECURSIVE UnquotedUnreservedRun(_, _, _)
UnquotedUnreservedRun(s, lo, hi) ==
    IF lo > hi THEN <<>>
    ELSE IF lo = hi THEN UnquotedUnreservedAt(s, lo)
    ELSE UnquotedUnreservedRun(s, lo, (lo + hi) \div 2)
         \o UnquotedUnreservedRun(s, ((lo + hi) \div 2) + 1, hi)

\* requests.utils.unquote_unreserved(s): the escapes of unreserved characters
\* replaced by the characters
unquote_unreserved(s) == UnquotedUnreservedRun(s, 1, Len(s))

\* what follows the host is nothing, or ':' and a port: decimal digits of
\* which at most five follow the leading zeros, not above 65535
IsPortSuffix(s) ==
    LET digits == SubSeq(s, 2, Len(s))
        value == LStrip(digits, {"0"})
    IN  \/ s = <<>>
        \/ /\ s[1] = ":"
           /\ \A i \in 1..Len(digits) : digits[i] \in Range(Digits)
           /\ Len(value) <= 5
           /\ DecimalValue(value) <= 65535

\* where the host ends in the authority after its last '@': at the ']' of a
\* bracketed host, before the first ':' of another, 0 without a ']'
HostEnd(hp) ==
    IF hp # <<>> /\ hp[1] = "[" THEN FindChar(hp, "]")
    ELSE IF FindChar(hp, ":") > 0 THEN FindChar(hp, ":") - 1
    ELSE Len(hp)

\* the text without the newline that ends it: '$' also matches before it
Chopped(s) ==
    IF s # <<>> /\ s[Len(s)] = "\n" THEN SubSeq(s, 1, Len(s) - 1) ELSE s

\* a host written between brackets
Bracketed(host) == host # <<>> /\ host[1] = "["

\* urllib3's _HOST_PORT_RE matches host and suffix
ParsedHost(host, suffix) ==
    /\ IF Bracketed(host) THEN IsIPv6Addrz(host) ELSE IsRegName(host)
    /\ IsPortSuffix(suffix) \/ IsPortSuffix(Chopped(suffix))

\* prepare_url takes the host urllib3 parsed: it is not empty and starts with
\* neither '*' nor '.'
TakenHost(host) == host # <<>> /\ host[1] \notin {"*", "."}

\* the position of the last '@' of the authority, 0 without one
LastAt(authority) ==
    IF \E j \in 1..Len(authority) : authority[j] = "@"
    THEN CHOOSE j \in 1..Len(authority) :
            authority[j] = "@" /\ \A k \in (j + 1)..Len(authority) : authority[k] # "@"
    ELSE 0

(***************************************************************************)
(* The URL of a prepared request: PreparedRequest.prepare_url with urllib3's *)
(* parse_url, urlunparse and requests.utils.requote_uri                    *)
(***************************************************************************)
\* c.upper() of a hex digit
UpperHex(c) ==
    IF \E i \in 1..6 : LowerLetters[i] = c
    THEN UpperLetters[CHOOSE i \in 1..6 : LowerLetters[i] = c]
    ELSE c

\* the escape of a byte: '%' and its two upper-case hex digits
EscapeByte(b) == <<"%", HexUpper[(b \div 16) + 1], HexUpper[(b % 16) + 1]>>

\* the escape of a character: the escapes of its UTF-8 bytes
EscapeChar(c) ==
    LET bytes == Utf8Bytes(Ord(c))
    IN  EscapeByte(bytes[1])
        \o (IF Len(bytes) > 1 THEN EscapeByte(bytes[2]) ELSE <<>>)
        \o (IF Len(bytes) > 2 THEN EscapeByte(bytes[3]) ELSE <<>>)
        \o (IF Len(bytes) > 3 THEN EscapeByte(bytes[4]) ELSE <<>>)

\* PERCENT_RE.subn(lambda match: match.group(0).upper(), component)
UpperEscapes(s) ==
    [i \in 1..Len(s) |->
        IF (i > 1 /\ EscapeStarts(s, i - 1)) \/ (i > 2 /\ EscapeStarts(s, i - 2))
        THEN UpperHex(s[i]) ELSE s[i]]

\* s with every character outside kept replaced by its escape
RECURSIVE EscapeRun(_, _, _, _)
EscapeRun(s, kept, lo, hi) ==
    IF lo > hi THEN <<>>
    ELSE IF lo = hi THEN (IF s[lo] \in kept THEN <<s[lo]>> ELSE EscapeChar(s[lo]))
    ELSE EscapeRun(s, kept, lo, (lo + hi) \div 2)
         \o EscapeRun(s, kept, ((lo + hi) \div 2) + 1, hi)

EscapeOutside(s, kept) == EscapeRun(s, kept, 1, Len(s))

\* urllib3's _encode_invalid_chars(component, allowed_chars): a '%' stays
\* only when every '%' of the component starts an escape
encode_invalid_chars(component, allowed) ==
    EscapeOutside(UpperEscapes(component),
                  IF PercentEscaped(component) THEN allowed \cup {"%"} ELSE allowed)

\* urllib3's USERINFO_CHARS, PATH_CHARS and QUERY_CHARS (FRAGMENT_CHARS is the
\* same set)
UserinfoChars ==
    UnreservedChars \cup {"!", "$", "&", "'", "(", ")", "*", "+", ",", ";", "=", ":"}

PathChars == UserinfoChars \cup {"@", "/"}

QueryChars == PathChars \cup {"?"}

\* what urllib3's _remove_path_dot_segments does with the segments kept
DotSegmentsJoined(path, output) ==
    Join((IF path[1] = "/" /\ (output = <<>> \/ output[1] # <<>>)
          THEN <<<<>>>> ELSE <<>>)
         \o output
         \o (IF \/ (Len(path) >= 2 /\ SubSeq(path, Len(path) - 1, Len(path)) = <<"/", ".">>)
                \/ (Len(path) >= 3
                      /\ SubSeq(path, Len(path) - 2, Len(path)) = <<"/", ".", ".">>)
             THEN <<<<>>>> ELSE <<>>),
         "/")

\* urllib3's _remove_path_dot_segments(path), path not empty
remove_path_dot_segments(path) ==
    DotSegmentsJoined(path, ResolveDots(Split(path, "/"), <<>>))

\* the path as urlunparse writes it: '/' when it is empty (if not path: path =
\* '/'), and with a '/' before a path that starts with none
WithSlash(p) == IF p = <<>> \/ p[1] # "/" THEN <<"/">> \o p ELSE p

\* the path of the prepared URL: without dot segments, its invalid characters
\* escaped
PreparedPath(path) ==
    WithSlash(IF path = <<>> THEN <<>>
              ELSE encode_invalid_chars(remove_path_dot_segments(path), PathChars))

\* the query or the fragment behind its mark, nothing when it is empty
WithMark(mark, part) == IF part = <<>> THEN <<>> ELSE <<mark>> \o part

\* the query of the prepared URL, q the position where the path ends
PreparedQuery(tail, q) ==
    IF q > Len(tail) \/ tail[q] # "?" THEN <<>>
    ELSE WithMark("?", encode_invalid_chars(
                           SubSeq(tail, q + 1, FirstOf(tail, {"#"}, q) - 1), QueryChars))

\* the fragment of the prepared URL, h the position of the first '#'
PreparedFragment(tail, h) ==
    IF h > Len(tail) THEN <<>>
    ELSE WithMark("#", encode_invalid_chars(SubSeq(tail, h + 1, Len(tail)), QueryChars))

\* URI_RE cuts what follows the authority into path, query and fragment
PreparedTail(tail) ==
    PreparedPath(SubSeq(tail, 1, FirstOf(tail, {"?", "#"}, 1) - 1))
        \o PreparedQuery(tail, FirstOf(tail, {"?", "#"}, 1))
        \o PreparedFragment(tail, FirstOf(tail, {"#"}, 1))

\* the zone id behind the '%' of a bracketed address: ZONE_ID_RE takes '%25'
\* as its mark when something follows it
ZoneId(zone) ==
    IF Prefix(zone, 2) = <<"2", "5">> /\ Len(zone) > 2 THEN SubSeq(zone, 3, Len(zone))
    ELSE zone

\* urllib3's _normalize_host for http, https and no scheme: a bracketed
\* address in lower case, its zone id without the '25' of a '%25' and its
\* invalid characters escaped; any other host label by label through
\* _idna_encode, which puts an ASCII host in lower case and raises on a label
\* idna refuses (ok tells that it does not)
normalize_host(host) ==
    IF ~Bracketed(host) /\ ~unicode_is_ascii(host)
    THEN IdnaLabels(Split(host, "."), 1, Len(Split(host, ".")))
    ELSE IF ~Bracketed(host) \/ FindChar(host, "%") = 0
    THEN [ok |-> TRUE, out |-> LowerStr(host)]
    ELSE [ok |-> TRUE,
          out |-> LowerStr(SubSeq(host, 1, FindChar(host, "%") - 1))
                  \o <<"%">>
                  \o encode_invalid_chars(
                         ZoneId(SubSeq(host, FindChar(host, "%") + 1, Len(host) - 1)),
                         UnreservedChars)
                  \o <<"]">>]

\* port = int(port); if port: netloc += f":{port}"
PreparedPort(digits) ==
    IF DecimalValue(digits) = 0 THEN <<>> ELSE <<":">> \o LStrip(digits, {"0"})

\* the port behind the host as prepare_url writes it
PortOf(suffix) == PreparedPort(SelectSeq(suffix, LAMBDA c : c \in Range(Digits)))

\* auth = _encode_invalid_chars(auth, USERINFO_CHARS); netloc = auth + '@'
PreparedUserinfo(auth) ==
    IF auth = <<>> THEN <<>> ELSE encode_invalid_chars(auth, UserinfoChars) \o <<"@">>

\* urllib.parse.quote(s, safe)
Quote(s, safe) == EscapeOutside(s, UnreservedChars \cup safe)

\* safe_without_percent of requote_uri; safe_with_percent has '%' too
SafeWithoutPercent ==
    {"!", "#", "$", "&", "'", "(", ")", "*", "+", ",", "/", ":", ";", "=", "?", "@",
     "[", "]", "~"}

\* requests.utils.requote_uri(uri)
requote_uri(uri) ==
    IF UnquoteRaises(uri) THEN Quote(uri, SafeWithoutPercent)
    ELSE Quote(unquote_unreserved(uri), SafeWithoutPercent \cup {"%"})

\* the characters that end the authority in URI_RE
AuthorityEnd == {"\\", "/", "?", "#"}

\* the start of a URL up to its first ':' is a scheme for urllib3's
\* _SCHEME_RE: a letter, then letters, digits, '+' and '-'
SchemeLike(p) ==
    /\ p # <<>>
    /\ p[1] \in Letters
    /\ \A i \in 2..Len(p) : p[i] \in Letters \cup Range(Digits) \cup {"+", "-"}

\* what prepare_url comes to: the exception it raises, "" when it raises
\* none, and then the URL of the request
Raises(error) == [error |-> error, url |-> <<>>]

PreparedAs(url) == [error |-> "", url |-> url]

\* prepare_url under the scheme http, https or none, which urllib3
\* normalizes, host being what _normalize_host makes of the host: InvalidURL
\* when a label of the host is one idna refuses, MissingSchema without a
\* scheme, InvalidURL when the host is empty or starts with '*' or '.', else
\* urlunparse of the scheme, the netloc with the user name and password, the
\* host and the number of the port, and the path, the query and the fragment
PrepareNormalized(scheme, auth, host, suffix, tail) ==
    IF ~host.ok THEN Raises("InvalidURL")
    ELSE IF scheme = <<>> THEN Raises("MissingSchema")
    ELSE IF ~TakenHost(host.out) THEN Raises("InvalidURL")
    ELSE PreparedAs(scheme \o <<":", "/", "/">> \o PreparedUserinfo(auth) \o host.out
                        \o PortOf(suffix) \o PreparedTail(tail))

\* the host as prepare_url takes it under a scheme urllib3 does not
\* normalize: a host beyond ASCII goes through _get_idna_encoded_host, which
\* is idna.encode(host, uts46=True), any other is not empty and starts with
\* neither '*' nor '.'
EncodedHost(host) ==
    IF unicode_is_ascii(host) THEN [ok |-> TakenHost(host), out |-> host]
    ELSE AsChars(idna_encode(CodePoints(host)))

\* the path, the query and the fragment as urlunparse writes them when
\* urllib3 has left them as they are
PlainTail(tail, q, h) ==
    WithSlash(SubSeq(tail, 1, q - 1))
        \o (IF q <= Len(tail) /\ tail[q] = "?"
            THEN WithMark("?", SubSeq(tail, q + 1, h - 1)) ELSE <<>>)
        \o (IF h <= Len(tail) THEN WithMark("#", SubSeq(tail, h + 1, Len(tail))) ELSE <<>>)

\* prepare_url under such a scheme, host being what EncodedHost makes of the
\* host: InvalidURL when the host is not taken, the UnicodeEncodeError of
\* quote in requote_uri on a surrogate, else urlunparse of the scheme, the
\* netloc with the user name and password if there are any, the host and the
\* number of the port, and the path, the query and the fragment as they are
PrepareEncoded(scheme, auth, host, suffix, tail) ==
    IF ~host.ok THEN Raises("InvalidURL")
    ELSE IF \E i \in 1..Len(auth \o tail) : IsSurrogate((auth \o tail)[i])
    THEN Raises("UnicodeEncodeError")
    ELSE PreparedAs(scheme \o <<":", "/", "/">>
                        \o (IF auth = <<>> THEN <<>> ELSE auth \o <<"@">>)
                        \o host.out \o PortOf(suffix)
                        \o PlainTail(tail, FirstOf(tail, {"?", "#"}, 1), FirstOf(tail, {"#"}, 1)))

\* prepare_url on what urllib3's parse_url reads in a URL: the scheme in
\* lower case (none: <<>>), user name and password, host, what follows the
\* host, and what follows the authority. InvalidURL when _HOST_PORT_RE does
\* not match
PrepareParts(scheme, auth, host, suffix, tail) ==
    IF ~ParsedHost(host, suffix) THEN Raises("InvalidURL")
    ELSE IF scheme \in {<<>>, S_http, S_https}
    THEN PrepareNormalized(scheme, auth, normalize_host(host), suffix, tail)
    ELSE PrepareEncoded(scheme, auth, EncodedHost(host), suffix, tail)

\* what follows the last '@' of the authority is cut where the host ends
PrepareHostPort(scheme, auth, hp, tail) ==
    PrepareParts(scheme, auth, SubSeq(hp, 1, HostEnd(hp)), SubSeq(hp, HostEnd(hp) + 1, Len(hp)),
                 tail)

\* auth, _, host_port = authority.rpartition("@")
PrepareAuthority(scheme, authority, tail) ==
    PrepareHostPort(scheme, SubSeq(authority, 1, LastAt(authority) - 1),
                    SubSeq(authority, LastAt(authority) + 1, Len(authority)), tail)

\* URI_RE on what follows the scheme: after '//' the authority, which ends at
\* the first of '\', '/', '?' and '#'; without '//' there is none
PrepareAfterScheme(scheme, rest) ==
    PrepareAuthority(scheme,
                     IF Prefix(rest, 2) = <<"/", "/">>
                     THEN SubSeq(rest, 3, FirstOf(rest, AuthorityEnd, 3) - 1) ELSE <<>>,
                     IF Prefix(rest, 2) = <<"/", "/">>
                     THEN SubSeq(rest, FirstOf(rest, AuthorityEnd, 3), Len(rest)) ELSE rest)

\* urllib3 finds a scheme at the start of the URL
StartsWithScheme(u) == FindChar(u, ":") > 0 /\ SchemeLike(SubSeq(u, 1, FindChar(u, ":") - 1))

\* requote_uri of the URL that urlunparse wrote
Requoted(prepared) ==
    IF prepared.error # "" THEN prepared ELSE PreparedAs(requote_uri(prepared.url))

\* prepare_url of a URL without leading white space: the URL itself when it
\* has a ':' and does not start with 'http'; else what parse_url reads in it,
\* a URL without a scheme that does not start with '/' being read as '//' and
\* the URL
PreparedStripped(u) ==
    IF FindChar(u, ":") > 0 /\ Prefix(LowerStr(u), 4) # S_http THEN PreparedAs(u)
    ELSE Requoted(PrepareAfterScheme(
                      IF StartsWithScheme(u) THEN LowerStr(SubSeq(u, 1, FindChar(u, ":") - 1))
                      ELSE <<>>,
                      IF StartsWithScheme(u) THEN SubSeq(u, FindChar(u, ":") + 1, Len(u))
                      ELSE IF u # <<>> /\ u[1] = "/" THEN u
                      ELSE <<"/", "/">> \o u))

\* what PreparedRequest.prepare_url(url, None) comes to: url = url.lstrip()
UrlPrepared(url) == PreparedStripped(LStrip(url, UnicodeSpace))

\* PreparedRequest.prepare_url(url, None) of a URL that prepare_url takes: the
\* URL the request goes to, and the url of the response to it
prepare_url(url) == UrlPrepared(url).url

(***************************************************************************)
(* What requests sends and what it refuses                                 *)
(***************************************************************************)
\* what position i of s gives urllib.parse.unquote to decode: the byte of an
\* escape that starts there, nothing inside an escape, else the UTF-8 bytes of
\* the character
UnquotedAt(s, i) ==
    IF EscapeStarts(s, i) THEN <<HexByte(SubSeq(s, i + 1, i + 2))>>
    ELSE IF (i > 1 /\ EscapeStarts(s, i - 1)) \/ (i > 2 /\ EscapeStarts(s, i - 2)) THEN <<>>
    ELSE Utf8Bytes(Ord(s[i]))

RECURSIVE UnquotedRun(_, _, _)
UnquotedRun(s, lo, hi) ==
    IF lo > hi THEN <<>>
    ELSE IF lo = hi THEN UnquotedAt(s, lo)
    ELSE UnquotedRun(s, lo, (lo + hi) \div 2) \o UnquotedRun(s, ((lo + hi) \div 2) + 1, hi)

\* unquote(s).encode('latin1') does not raise: unquote decodes the bytes of
\* the escapes as UTF-8, an invalid byte as U+FFFD, and leaves the other
\* characters, and latin1 has the characters up to U+00FF
Latin1Encodes(s) ==
    /\ \A i \in 1..Len(s) : IsAsciiChar(s[i]) \/ Ord(s[i]) <= 255
    /\ FindChar(s, "%") > 0 =>
          \E bytes \in {UnquotedRun(s, 1, Len(s))} :
              \E text \in {Utf8DecodeIgnore(bytes, 1)} :
                  /\ Utf8Encode(text) = bytes
                  /\ \A k \in 1..Len(text) : text[k] <= 255

\* prepare_auth raises UnicodeEncodeError on the prepared URL: user name and
\* password of get_auth_from_url, which are those of the netloc when it has
\* an '@' and a ':' before its last '@', go unquoted to _basic_auth_str,
\* which encodes them as latin1
basic_auth_raises(netloc) ==
    /\ LastAt(netloc) > 0
    /\ \E userinfo \in {SubSeq(netloc, 1, LastAt(netloc) - 1)} :
          /\ FindChar(userinfo, ":") > 0
          /\ \E part \in {PartBefore(userinfo, ":"), PartAfter(userinfo, ":")} :
                ~Latin1Encodes(part)

\* Session.get_adapter finds the adapter of a URL: url.lower() starts with
\* 'https://' or 'http://', the prefixes a session mounts
HasAdapter(url) ==
    \/ LowerStr(Prefix(url, 7)) = S_http \o <<":", "/", "/">>
    \/ LowerStr(Prefix(url, 8)) = S_https \o <<":", "/", "/">>

\* the exception a request raises before any network activity, "" when the
\* request is sent, prepared being what prepare_url came to: the exception
\* of prepare_url; the ValueError of urlparse of the prepared URL in
\* prepare_cookies; the UnicodeEncodeError of prepare_auth, which reads user
\* name and password from the prepared URL when the request has no auth of
\* its own (url_auth); the InvalidSchema of get_adapter
SendError(prepared, url_auth) ==
    IF prepared.error # "" THEN prepared.error
    ELSE IF urlsplit(prepared.url).raised THEN "ValueError"
    ELSE IF url_auth /\ basic_auth_raises(urlsplit(prepared.url).netloc)
    THEN "UnicodeEncodeError"
    ELSE IF ~HasAdapter(prepared.url) THEN "InvalidSchema"
    ELSE ""

\* the exception session.get(url) or session.post(url) raises before any
\* network activity, "" when the request is sent
send_error(url) == SendError(UrlPrepared(url), TRUE)

\* the same of session.get(url, auth=auth)
send_error_with_auth(url) == SendError(UrlPrepared(url), FALSE)

\* whether requests sends a request to url: PreparedRequest.prepare and
\* Session.get_adapter raise before any network activity on a URL that, its
\* leading white space stripped (url.lstrip() of prepare_url), has no http(s)
\* scheme, no '//' and host after it, an authority that urllib3 or urlparse
\* refuses, or a user name or password that prepare_auth cannot encode
UrlSendable(url) == send_error(url) = ""

\* a None method or URL raises as well
CanSend(method, url) ==
    /\ method.some
    /\ url.some
    /\ UrlSendable(url.v)

(***************************************************************************)
(* HTTP responses and replay steps                                         *)
(***************************************************************************)
\* r.text[:800]
ContentCap == 800

\* saml[:2000]
SnippetCap == 2000

\* a response body: its kind (html, json, other), the parse of an html body,
\* the access_token of a JSON object body, the length of the text, the length
\* up to its last character that is no blank, whether the text is whole (not
\* cut) and whether json.loads parses it
Body(kind, page, token, len) ==
    [kind |-> kind, page |-> page, token |-> token, len |-> len, end |-> len,
     whole |-> TRUE, parses |-> (kind = "json")]

\* a JSON object of end characters followed by blanks up to len characters
PaddedBody(token, end, len) ==
    [kind |-> "json", page |-> <<>>, token |-> token, len |-> len, end |-> end,
     whole |-> TRUE, parses |-> TRUE]

NoBody ==
    [kind |-> "other", page |-> <<>>, token |-> NoneS, len |-> 0, end |-> 0,
     whole |-> TRUE, parses |-> FALSE]

\* r.text[:800]: a JSON text still parses when only blanks were cut off
ContentSnippet(body) ==
    [body EXCEPT !.len = Min(@, ContentCap), !.end = Min(@, ContentCap),
                 !.whole = (body.len <= ContentCap),
                 !.parses = (@ /\ body.end <= ContentCap)]

NoContent == [some |-> FALSE, v |-> NoBody]

Step(action, url, status, cookies, content, snippet, error) ==
    [action |-> action, url |-> url, status |-> status, cookies |-> cookies,
     content |-> content, snippet |-> snippet, error |-> error]

GetStep(url, r, cookies) ==
    Step("GET", SomeS(url), SomeI(r.status), cookies,
         [some |-> TRUE, v |-> ContentSnippet(r.body)], <<>>, "")

SubmitStep(r, cookies) ==
    Step("SUBMIT_FORM", SomeS(r.url), SomeI(r.status), cookies,
         [some |-> TRUE, v |-> ContentSnippet(r.body)], <<>>, "")

ReplayStep(url, r, cookies) ==
    Step("REPLAY_XHR", url, SomeI(r.status), cookies,
         [some |-> TRUE, v |-> ContentSnippet(r.body)], <<>>, "")

ReplayFailedStep(url, error) ==
    Step("REPLAY_XHR_FAILED", url, NoneI, <<>>, NoContent, <<>>, error)

\* a SAML_DECODE step holding the whole of the decoded text
DecodeStepWhole(saml) == Step("SAML_DECODE", NoneS, NoneI, <<>>, NoContent, saml, "")

DecodeStep(saml) ==
    Step("SAML_DECODE", NoneS, NoneI, <<>>, NoContent, Prefix(saml, SnippetCap), "")

ErrorStep(error) == Step("ERROR", NoneS, NoneI, <<>>, NoContent, <<>>, error)

(***************************************************************************)
(* submit_form_soup and the credential substitution                        *)
(***************************************************************************)
\* a substitution in which the username test comes last and so prevails
SubstituteUserWins(name, val, username, password) ==
    LET n == LowerStr(name)
        v1 == IF password.some /\ password.v # <<>> /\ Contains(S_pass, n)
              THEN password ELSE val
    IN  IF /\ username.some /\ username.v # <<>>
           /\ (Contains(S_user, n) \/ Contains(S_login, n) \/ Contains(S_email, n))
        THEN username ELSE v1

\* the value sent for a field named name whose own value is val; a value is
\* a str or, for a parameter of the archive whose value is null, None
Substitute(name, val, username, password) ==
    LET n == LowerStr(name)
        v1 == IF /\ username.some /\ username.v # <<>>
                 /\ (Contains(S_user, n) \/ Contains(S_login, n) \/ Contains(S_email, n))
              THEN username ELSE val
    IN  IF password.some /\ password.v # <<>> /\ Contains(S_pass, n)
        THEN password ELSE v1

\* the data dict of submit_form_soup: unnamed fields are skipped, and a field
\* without value has '' (inp.get('value') or '')
RECURSIVE FormData(_, _, _)
FormData(fields, username, password) ==
    IF fields = <<>> THEN <<>>
    ELSE LET rest == FormData(SubSeq(fields, 1, Len(fields) - 1), username, password)
             f == fields[Len(fields)]
         IN  IF ~f.name.some \/ f.name.v = <<>> THEN rest
             ELSE DictSet(rest, f.name.v,
                          Substitute(f.name.v, SomeS(OrEmpty(f.value)), username,
                                     password))

\* the request submit_form_soup sends for form found on the page fetched from
\* base_url; its url is ValueError when urljoin raises
FormRequest(base_url, form, username, password) ==
    LET action == IF form.action.some /\ form.action.v # <<>>
                  THEN form.action.v ELSE base_url
        method == LowerStr(IF form.method.some /\ form.method.v # <<>>
                           THEN form.method.v ELSE S_get)
    IN  [method |-> IF method = S_post THEN SomeS(S_POST) ELSE SomeS(S_GET),
         url |-> SomeS(urljoin(base_url, action)),
         data |-> FormData(form.fields, username, password)]

(***************************************************************************)
(* the fallback of replay_flow                                             *)
(***************************************************************************)
\* flow_entries[:10]
FallbackCap == 10

\* a fallback looping over the whole flow
FallbackEntriesUncapped(fl) == fl

\* the entries the fallback loops over: flow_entries[:10]
FallbackEntries(fl) == Prefix(fl, FallbackCap)

\* if post and post.get('params'): "skip", "replay", or "raise" for a postData
\* that is a non-empty string (str has no get; the empty string is falsy)
FallbackKind(e) ==
    CASE e.postData.kind \in {"absent", "emptytext"} -> "skip"
      [] e.postData.kind = "text" -> "raise"
      [] e.postData.params = <<>> -> "skip"
      [] OTHER -> "replay"

\* {p['name']: p.get('value','') for p in post['params'] if p.get('name')}, with
\* the credentials substituted
RECURSIVE FallbackParams(_, _, _)
FallbackParams(params, username, password) ==
    IF params = <<>> THEN <<>>
    ELSE LET rest == FallbackParams(SubSeq(params, 1, Len(params) - 1),
                                    username, password)
             p == params[Len(params)]
         IN  IF p.name.k # "str" \/ p.name.s = <<>> THEN rest
             ELSE DictSet(rest, p.name.s,
                          Substitute(p.name.s, GetOrEmpty(p.value), username, password))

FallbackRequest(e, username, password) ==
    [method |-> e.method, url |-> e.url,
     data |-> FallbackParams(e.postData.params, username, password)]

(***************************************************************************)
(* replay_flow: start, handler, finalisation                               *)
(***************************************************************************)
\* if not start_url: start_url = flow_entries[0]['url'] if flow_entries else None
StartUrl(a, an, fl) ==
    IF a.start_url.some /\ a.start_url.v # <<>> THEN a.start_url
    ELSE IF fl # <<>> THEN an[fl[1]].url
    ELSE NoneS

\* a replay_flow without the outer except clause: the exception leaves it
OuterHandlerAbsent(sts, error) == [steps |-> sts, escaped |-> TRUE]

\* except Exception as ex: of the try around the whole replay: the steps after
\* the handler ran, and whether the exception leaves replay_flow
OuterHandler(sts, error) == [steps |-> Append(sts, ErrorStep(error)), escaped |-> FALSE]

\* the cookie lookup with the names compared in lower case
FoundSamlTokenAnyCase(final_cookies) ==
    IF \E i \in 1..Len(final_cookies) : LowerStr(final_cookies[i].k) = S_samltoken
    THEN SomeS(final_cookies[CHOOSE i \in 1..Len(final_cookies) :
                                 LowerStr(final_cookies[i].k) = S_samltoken].v)
    ELSE NoneS

\* if 'samlToken' in final_cookies: report['found_samlToken'] = ...
FoundSamlToken(final_cookies) ==
    IF DictHas(final_cookies, S_samlToken)
    THEN SomeS(DictGet(final_cookies, S_samlToken))
    ELSE NoneS

\* json.loads(last['content_snippet']) and its access_token
FoundAccessToken(sts) ==
    IF sts = <<>> THEN NoneS
    ELSE LET last == sts[Len(sts)]
         IN  IF /\ last.content.some
                /\ last.content.v.kind = "json"
                /\ last.content.v.parses
             THEN last.content.v.token
             ELSE NoneS

Report(final_cookies, sts) ==
    [final_cookies |-> final_cookies, steps |-> sts,
     found_samlToken |-> FoundSamlToken(final_cookies),
     found_access_token |-> FoundAccessToken(sts)]

NoReport == [final_cookies |-> <<>>, steps |-> <<>>, found_samlToken |-> NoneS,
             found_access_token |-> NoneS]

(***************************************************************************)
(* The encodings a server applies: str.encode('utf-8') and                 *)
(* base64.b64encode                                                        *)
(***************************************************************************)
\* byte k of bs, 0 past its end
ByteAt(bs, k) == IF k <= Len(bs) THEN bs[k] ELSE 0

\* character j (0..3) of the group of bs that begins at byte k: two, three or
\* four characters of the alphabet, then the padding
B64Char(bs, k, j) ==
    CASE j = 0 -> B64Chars[(bs[k] \div 4) + 1]
      [] j = 1 -> B64Chars[(bs[k] % 4) * 16 + (ByteAt(bs, k + 1) \div 16) + 1]
      [] j = 2 -> IF k + 1 > Len(bs) THEN "="
                  ELSE B64Chars[(bs[k + 1] % 16) * 4 + (ByteAt(bs, k + 2) \div 64) + 1]
      [] OTHER -> IF k + 2 > Len(bs) THEN "=" ELSE B64Chars[(bs[k + 2] % 64) + 1]

B64Encode(bs) ==
    [n \in 1..(4 * ((Len(bs) + 2) \div 3)) |->
        B64Char(bs, 3 * ((n - 1) \div 4) + 1, (n - 1) % 4)]

\* the SAMLResponse value a server sends for the text t
SamlValue(t) == B64Encode(Utf8Encode(t))

(***************************************************************************)
(* Inputs: URLs, HAR entries, HAR documents, command lines                 *)
(***************************************************************************)
Https == <<"h","t","t","p","s",":","/","/">>

\* https://a/p
U_a == Https \o <<"a","/","p">>
\* https://b/p
U_b == Https \o <<"b","/","p">>
\* https://c/p
U_c == Https \o <<"c","/","p">>
\* https://b/SAML2
U_b_saml == Https \o <<"b","/","S","A","M","L","2">>
\* https://a/login
U_a_login == Https \o <<"a","/">> \o S_login
\* /p
U_rel == <<"/","p">>
\* https://a/app/start
U_start == Https \o <<"a","/","a","p","p","/","s","t","a","r","t">>

\* <xml>ok</xml>
T_xml == <<60, 120, 109, 108, 62, 111, 107, 60, 47, 120, 109, 108, 62>>
\* hello
T_hello == <<104, 101, 108, 108, 111>>

\* a text longer than the snippet of a SAML_DECODE step, of letters and of
\* e-acute (two UTF-8 bytes) at every seventh place
T_long == [i \in 1..(SnippetCap + 300) |-> IF i % 7 = 0 THEN 233 ELSE 97 + (i % 26)]

S_username == <<"u","s","e","r","n","a","m","e">>
S_Password == <<"P","a","s","s","w","o","r","d">>
S_login_pass == <<"l","o","g","i","n","_","p","a","s","s">>
S_bob == <<"b","o","b">>
S_pw == <<"p","w">>
S_xyz == <<"x","y","z">>

E_a == [BaseEntry EXCEPT !.url = SomeS(U_a), !.time = SomeI(2)]
E_a0 == [BaseEntry EXCEPT !.url = SomeS(U_a)]
E_b == [BaseEntry EXCEPT !.url = SomeS(U_b), !.time = SomeI(5)]
E_b0 == [BaseEntry EXCEPT !.url = SomeS(U_b)]
E_c == [BaseEntry EXCEPT !.url = SomeS(U_c), !.time = SomeI(-1)]
E_c0 == [BaseEntry EXCEPT !.url = SomeS(U_c)]
E_b_saml ==
    [BaseEntry EXCEPT !.url = SomeS(U_b_saml), !.method = SomeS(S_POST),
                      !.status = SomeI(302), !.time = SomeI(1),
                      !.postData = PostDict(<<Param(NameStr(S_SAMLRequest), ValueStr(S_xyz))>>)]
\* a GET of the SAML endpoint, without parameters
E_saml_get == [BaseEntry EXCEPT !.url = SomeS(U_b_saml), !.time = SomeI(4)]
E_login ==
    [BaseEntry EXCEPT !.url = SomeS(U_a_login), !.method = SomeS(S_POST),
                      !.postData = PostDict(<<Param(NameStr(S_username), ValueStr(S_xyz)),
                                              Param(NameStr(S_Password), ValueNull),
                                              Param(NameStr(S_login_pass), ValueStr(S_xyz))>>)]
E_c_resp ==
    [BaseEntry EXCEPT !.url = SomeS(U_c), !.method = SomeS(S_POST), !.time = SomeI(0),
                      !.postData = PostDict(<<Param(NameStr(S_samlresponse),
                                                    ValueStr(SamlValue(T_hello))),
                                              Param(NameAbsent, ValueStr(S_xyz))>>)]
E_nourl == [BaseEntry EXCEPT !.time = SomeI(1)]
E_rel ==
    [BaseEntry EXCEPT !.url = SomeS(U_rel), !.time = SomeI(3),
                      !.postData = PostDict(<<Param(NameStr(S_RelayState), ValueStr(S_xyz))>>)]
E_null_first ==
    [BaseEntry EXCEPT !.url = SomeS(U_a), !.method = SomeS(S_POST), !.time = SomeI(2),
                      !.postData = PostDict(<<Param(NameNull, ValueStr(S_xyz)),
                                              Param(NameStr(S_SAMLRequest), ValueStr(S_xyz))>>)]
E_null_last ==
    [BaseEntry EXCEPT !.url = SomeS(U_c), !.method = SomeS(S_POST),
                      !.postData = PostDict(<<Param(NameStr(S_SAMLRequest), ValueStr(S_xyz)),
                                              Param(NameNull, ValueStr(S_xyz))>>)]
E_posttext == [BaseEntry EXCEPT !.url = SomeS(U_a), !.postData = PostText]
E_postempty == [BaseEntry EXCEPT !.url = SomeS(U_b), !.postData = PostEmptyText]
\* an exchange whose URL urlparse refuses: http://[a/p
E_badurl ==
    [BaseEntry EXCEPT !.url = SomeS(<<"h","t","t","p",":","/","/","[","a","/","p">>),
                      !.time = SomeI(3)]

\* the entries the analysis is explored over
EntryPool ==
    {E_a, E_a0, E_b, E_c, E_b_saml, E_saml_get, E_login, E_c_resp, E_nourl, E_rel,
     E_null_first, E_null_last, E_posttext, E_badurl}

\* the entries the whole run, replay included, is explored over
MainPool == {E_a, E_b_saml, E_login, E_nourl, E_posttext}

\* the longest archive enumerated over EntryPool
MaxEntries == 2

\* the longest archive enumerated over MainPool
MaxMainEntries == 2

SeqsUpTo(S, n) == UNION {[1..k -> S] : k \in 0..n}

HarOk(es) == [kind |-> "ok", entries |-> es]

\* archives that are not a HAR document: not JSON, a JSON array, no log, a null
\* log, no log.entries, a null log.entries
BrokenHars ==
    {[kind |-> k, entries |-> <<>>] :
        k \in {"invalid_json", "not_object", "no_log", "log_null", "no_entries",
               "entries_null"}}

\* an archive of n entries without auth-like URL or parameter, whose timestamps
\* are absent, 2 and -1 in turn and -1 past the fallback cap
LongPlain(n) ==
    [i \in 1..n |-> IF i > FlowCap \/ i % 7 = 3 THEN E_c
                    ELSE IF i % 2 = 0 THEN E_a0 ELSE E_a]

\* an archive of n entries of which all but every fifth are auth-like
LongAuth(n) ==
    [i \in 1..n |-> IF i % 5 = 0 THEN E_a
                    ELSE IF i % 2 = 0 THEN E_b_saml
                    ELSE IF i % 3 = 0 THEN E_saml_get
                    ELSE E_login]

\* an archive of n exchanges of which all but every fourth are auth-like: GETs
\* of the SAML endpoint, and one POST to it
LongReport(n) ==
    [i \in 1..n |-> IF i % 4 = 0 THEN E_a ELSE IF i = 2 THEN E_b_saml ELSE E_saml_get]

\* archives whose flow is longer than the sample of the final report: 33
\* auth-like exchanges out of 44, and 51 exchanges none of which is auth-like
ReportHars == {HarOk(LongReport(SampleCap + 14)), HarOk(LongPlain(FlowCap + 1))}

LongLens == {FlowCap - 1, FlowCap, FlowCap + 1, FlowCap + 2}

\* lengths at which LongAuth holds more auth-like entries than FlowCap
LongAuthLens == {FlowCap + 13, FlowCap + 14}

\* hosts a, b, a, c in archive order, without timestamps
HostsABAC == <<E_a0, E_b0, E_a0, E_c0>>

FlowHars ==
    {HarOk(es) : es \in SeqsUpTo(EntryPool, MaxEntries)}
        \cup {HarOk(LongPlain(n)) : n \in LongLens}
        \cup {HarOk(LongAuth(n)) : n \in LongLens \cup LongAuthLens}
        \cup {HarOk(HostsABAC), HarOk(<<E_a0, E_rel, E_b0>>), HarOk(<<E_rel, E_a0, E_rel>>)}

MainHars ==
    {HarOk(es) : es \in SeqsUpTo(MainPool, MaxMainEntries)}
        \cup BrokenHars
        \cup {HarOk(<<E_b_saml, E_c_resp, E_login>>)}
        \cup ReportHars

Args(start_url, username, password) ==
    [start_url |-> start_url, username |-> username, password |-> password]

ArgPool ==
    {Args(NoneS, NoneS, NoneS),
     Args(SomeS(U_start), SomeS(S_bob), SomeS(S_pw)),
     Args(NoneS, SomeS(S_bob), SomeS(S_pw))}

(***************************************************************************)
(* The servers: what a request can come back with                          *)
(***************************************************************************)
S_sid == <<"s","i","d">>
S_abc123 == <<"a","b","c","1","2","3">>
S_acs_path == <<"/","a","c","s">>
S_note == <<"n","o","t","e">>

\* a cookie as session.cookies holds it: under its domain, its path and its name
Stored(domain, path, k, v) == [domain |-> domain, path |-> path, k |-> k, v |-> v]

\* the hosts of the servers, and the path of their cookies
D_a == <<"a">>
D_b == <<"b">>
D_c == <<"c">>
P_root == <<"/">>

\* session.cookies.set_cookie(c): the jar is a dict of domains, each a dict of
\* paths, each a dict of names, all in insertion order; j lists its cookies in
\* the order in which iterating over the jar yields them
JarSet(j, c) ==
    LET same == {i \in 1..Len(j) :
                    j[i].domain = c.domain /\ j[i].path = c.path /\ j[i].k = c.k}
        inpath == {i \in 1..Len(j) : j[i].domain = c.domain /\ j[i].path = c.path}
        indomain == {i \in 1..Len(j) : j[i].domain = c.domain}
        Last(S) == CHOOSE i \in S : \A m \in S : m <= i
        at == IF inpath # {} THEN Last(inpath)
              ELSE IF indomain # {} THEN Last(indomain)
              ELSE Len(j)
    IN  IF same # {} THEN [i \in 1..Len(j) |-> IF i \in same THEN c ELSE j[i]]
        ELSE SubSeq(j, 1, at) \o <<c>> \o SubSeq(j, at + 1, Len(j))

\* the cookies of the answers to a request, stored one after the other
RECURSIVE JarUpdate(_, _)
JarUpdate(j, cs) ==
    IF cs = <<>> THEN j ELSE JarUpdate(JarSet(j, Head(cs)), Tail(cs))

\* session.cookies.get_dict(): dictionary[cookie.name] = cookie.value for each
\* cookie of the jar in turn, so that of the cookies of one name the last one
\* of the jar gives the value
RECURSIVE get_dict(_)
get_dict(j) ==
    IF j = <<>> THEN <<>>
    ELSE DictSet(get_dict(SubSeq(j, 1, Len(j) - 1)), j[Len(j)].k, j[Len(j)].v)

\* an auto-submitting POST-binding form carrying a SAMLResponse
PageSamlForm ==
    <<Form(SomeS(S_acs_path), SomeS(S_POST),
           <<Field("input", SomeS(S_SAMLResponse), SomeS(SamlValue(T_xml))),
             Field("input", SomeS(S_RelayState), SomeS(S_xyz))>>)>>

\* a login form without action or method, with an unnamed input
PageLoginForm ==
    <<Form(NoneS, NoneS,
           <<Field("input", SomeS(S_username), NoneS),
             Field("input", SomeS(S_Password), NoneS),
             Field("input", SomeS(S_login_pass), SomeS(S_abc123)),
             Field("input", NoneS, SomeS(S_xyz)),
             Field("textarea", SomeS(S_note), SomeS(S_xyz))>>)>>

\* inputs outside any form
PageSamlInput == <<Control("input", SomeS(S_samlresponse), SomeS(SamlValue(T_hello)))>>
PageSamlLong == <<Control("input", SomeS(S_SAMLResponse), SomeS(SamlValue(T_long)))>>
PageSamlBad == <<Control("input", SomeS(S_SAMLResponse), SomeS(<<"a">>))>>
PageSamlEmpty == <<Control("input", SomeS(S_SAMLResponse), SomeS(<<>>))>>

\* the pages the servers send
SentPages ==
    {<<>>, PageSamlForm, PageLoginForm, PageSamlInput, PageSamlLong, PageSamlBad,
     PageSamlEmpty}

\* decode_saml_response_from_html(r.text) for the text of each of them
decode_of_page == [page \in SentPages |-> decode_saml_response_from_html(page)]

\* a decode step put at the head of the list instead of its end
WithDecodeAtHead(sts, body) ==
    LET saml == decode_of_page[body.page]
    IN  IF saml.kind = "text" /\ saml.text # <<>>
        THEN <<DecodeStep(saml.text)>> \o sts
        ELSE sts

\* saml = decode_saml_response_from_html(r.text);
\* if saml: report_steps.append({'action': 'SAML_DECODE', ...})
WithDecode(sts, body) ==
    LET saml == decode_of_page[body.page]
    IN  IF saml.kind = "text" /\ saml.text # <<>>
        THEN Append(sts, DecodeStep(saml.text))
        ELSE sts

\* whether the page of a response yields a SAML artifact (if saml:)
YieldsSaml(body) ==
    LET saml == decode_of_page[body.page]
    IN  saml.kind = "text" /\ saml.text # <<>>

Response(status, url, body, cookies) ==
    [raised |-> FALSE, status |-> status, url |-> url, body |-> body,
     cookies |-> cookies]

\* a request that raises (connection refused, timeout, too many redirects), after
\* the cookies of the redirect hops already followed were stored
Failure(cookies) ==
    [raised |-> TRUE, status |-> 0, url |-> <<>>, body |-> NoBody, cookies |-> cookies]

NoResponse == Failure(<<>>)

\* the outcomes explored for the requests of a flow longer than the fallback
\* loop: a page without form or SAML input, a page with a SAML input, a failure
LongOutcomes ==
    {Response(200, U_c, Body("html", PageSamlInput, NoneS, 120),
              <<Stored(D_c, P_root, S_samlToken, S_abc123)>>),
     Response(200, U_a, Body("json", <<>>, SomeS(S_abc123), 40),
              <<Stored(D_a, P_root, S_SAMLTOKEN, S_xyz)>>),
     Failure(<<>>)}

Outcomes ==
    {Response(200, U_b_saml, Body("html", PageSamlForm, NoneS, 300),
              <<Stored(D_b, P_root, S_sid, S_xyz)>>),
     Response(200, U_a_login, Body("html", PageLoginForm, NoneS, 900),
              <<Stored(D_a, P_root, S_samltoken, S_xyz)>>),
     Response(200, U_c, Body("html", PageSamlInput, NoneS, 120),
              <<Stored(D_c, P_root, S_samlToken, S_abc123)>>),
     Response(403, U_a, Body("html", PageSamlBad, NoneS, 90),
              <<Stored(D_a, P_root, S_samltoken, S_xyz)>>),
     Response(200, U_a, Body("json", <<>>, SomeS(S_abc123), 40),
              <<Stored(D_a, P_root, S_SAMLTOKEN, S_xyz)>>),
     Response(500, U_b, Body("html", PageSamlEmpty, NoneS, 60),
              <<Stored(D_b, P_root, S_samltoken, S_sid)>>),
     Failure(<<>>),
     Failure(<<Stored(D_b, P_root, S_samlToken, S_abc123)>>)}

(***************************************************************************)
(* main()                                                                  *)
(***************************************************************************)
\* what the servers may answer to a request of the replay of flow fl
\* the outcomes explored for the requests of a flow longer than the sample of
\* the final report: a long page with the SAML input of a long text, a failure
ReportOutcomes ==
    {Response(200, U_c, Body("html", PageSamlLong, NoneS, 3000), <<>>),
     Failure(<<>>)}

ServerOutcomes(fl) ==
    IF Len(fl) > SampleCap THEN ReportOutcomes
    ELSE IF Len(fl) > FallbackCap THEN LongOutcomes
    ELSE Outcomes

\* what the servers may answer to the submission of a form: one of the above,
\* or a long page with the SAML input of a long text
SubmitOutcomes(fl) ==
    ServerOutcomes(fl) \cup {Response(200, U_c, Body("html", PageSamlLong, NoneS, 3000), <<>>)}

NoExc == [type |-> "", at |-> ""]
Raised(type, at) == [type |-> type, at |-> at]

NoDiagram ==
    [raised |-> FALSE, exc |-> "", hosts |-> <<>>, topology |-> <<>>, details |-> <<>>]

NoLocals == [get |-> NoResponse, submit |-> NoResponse, handled |-> FALSE]

Pending == [kind |-> "pending", text |-> <<>>]

\* main() has not assembled final_report
NoFinal ==
    [written |-> FALSE, entry_count |-> 0, candidate_flow_length |-> 0,
     flow_steps_sample |-> <<>>, diagram_ascii |-> <<>>, replay_report |-> NoReport]

\* {'url': s.get('url'), 'method': ..., 'status': ..., 'is_auth_like': ...}
SampleOf(s) ==
    [url |-> s.url, method |-> s.method, status |-> s.status,
     is_auth_like |-> s.is_auth_like]

\* a sample that takes every step of the flow
flow_steps_sample_uncapped(an, fl) ==
    [i \in 1..Len(fl) |-> SampleOf(an[fl[i]])]

\* [{...} for s in flow[:30]]
flow_steps_sample(an, fl) ==
    [i \in 1..Min(SampleCap, Len(fl)) |-> SampleOf(an[fl[i]])]

\* final_report, without its har_path (the model has no file names)
final_report(es, an, fl, dg, rep) ==
    [written |-> TRUE, entry_count |-> Len(es), candidate_flow_length |-> Len(fl),
     flow_steps_sample |-> flow_steps_sample(an, fl), diagram_ascii |-> dg,
     replay_report |-> rep]

\* no VMPowerManager.process_batch in this run
NoBatch ==
    [max_workers |-> 0, operations |-> <<>>, futures |-> <<>>, results |-> <<>>,
     returned |-> FALSE]
\* None, where a VMStatus is expected
NoStatus == "None"

\* process_vm(vm_name, action, wait_for_state) has not been called
NoProcess ==
    [action |-> "", wait_for_state |-> FALSE, line |-> "idle", vm_id |-> FALSE,
     current_state |-> NoStatus, accepted |-> FALSE, elapsed |-> 0, sent |-> <<>>,
     polled |-> <<>>, success |-> FALSE, message |-> ""]

\* what a server answers to a GET: a status, a Location header and the cookies
\* it sets, or nothing that can be read as a response, and then session.get
\* raises
HopWith(status, location, cookies) ==
    [raised |-> FALSE, status |-> status, location |-> location, error |-> "",
     cookies |-> cookies]
Hop(status, location) == HopWith(status, location, <<>>)
Unreachable ==
    [raised |-> TRUE, status |-> 0, location |-> NoneS, error |-> "ConnectionError",
     cookies |-> <<>>]
\* the server takes the connection and never sends a status line
NoAnswer == HopWith(0, NoneS, <<>>)
\* session.get raises TooManyRedirects('Exceeded 0 redirects.')
Exceeded ==
    [raised |-> TRUE, status |-> 0, location |-> NoneS, error |-> "TooManyRedirects",
     cookies |-> <<>>]

\* the variable location of get_saml_token: unbound before the first turn of
\* the loop
Unbound == [bound |-> FALSE, v |-> NoneS]
Bound(l) == [bound |-> TRUE, v |-> l]

NoSaml == [found |-> FALSE, value |-> NoneS, action |-> NoneS]

\* get_saml_token has not been called
NoLogin ==
    [server |-> [initial |-> Unreachable, a |-> Unreachable, b |-> Unreachable],
     line |-> "idle", resp |-> Unreachable, location |-> Unbound, saml |-> NoSaml,
     current_url |-> NoneS, cookies |-> <<>>, posted |-> FALSE,
     outcome |-> "none", value |-> NoneS, error |-> ""]

\* no VMDecommissioner in this run
NoVmd ==
    [dry_run |-> FALSE, max_workers |-> 0, tasks |-> <<>>, calls |-> <<>>,
     results |-> <<>>, returned |-> FALSE]

InitRun(hars, argpool) ==
    /\ again = <<>>
    /\ final = NoFinal
    /\ pwb = NoBatch
    /\ pvm = NoProcess
    /\ sso = NoLogin
    /\ vmd = NoVmd
    /\ pc = "start"
    /\ har \in hars
    /\ args \in argpool
    /\ entries = <<>>
    /\ analyzed = <<>>
    /\ flow = <<>>
    /\ diagram = NoDiagram
    /\ steps = <<>>
    /\ jar = <<>>
    /\ net = <<>>
    /\ resp = NoLocals
    /\ fbi = 0
    /\ report = NoReport
    /\ exc = NoExc
    /\ html = <<>>
    /\ decoded = Pending

Init == InitRun(MainHars, ArgPool)

InitFlow == InitRun(FlowHars, {Args(NoneS, NoneS, NoneS)})

Crash(type, at) ==
    /\ pc' = "crashed"
    /\ exc' = Raised(type, at)

\* har = load_har(har_path); entries = extract_entries(har); len(entries)
LoadHar ==
    /\ pc = "start"
    /\ LET l == load_har(har)
           x == extract_entries(har)
       IN  IF l.raised
           THEN Crash(l.exc, "load_har") /\ UNCHANGED entries
           ELSE IF x.raised
           THEN Crash(x.exc, "extract_entries") /\ UNCHANGED entries
           ELSE pc' = "loaded" /\ entries' = x.entries /\ UNCHANGED exc
    /\ UNCHANGED <<final, pwb, pvm, sso, again, vmd, har, args, analyzed, flow, diagram, steps, jar, net, resp, fbi,
                   report, html, decoded>>

\* the entries handed to analyze_entries, after it ran: what its statements
\* leave of each entry; the dict it builds per entry is a new one
InputAfterAnalyze(es) == [i \in 1..Len(es) |-> AfterGets(es[i], EntryKeys)]

\* analyzed = analyze_entries(entries)
Analyze ==
    /\ pc = "loaded"
    /\ IF AnalyzeRaises(entries)
       THEN Crash("AttributeError", "analyze_entries") /\ UNCHANGED analyzed
       ELSE /\ analyzed' = analyze_entries(entries)
            /\ pc' = "analyzed"
            /\ UNCHANGED exc
    /\ entries' = InputAfterAnalyze(entries)
    /\ UNCHANGED <<final, pwb, pvm, sso, again, vmd, har, args, flow, diagram, steps, jar, net, resp, fbi,
                   report, html, decoded>>

\* flow = build_candidate_flow(analyzed)
BuildFlow ==
    /\ pc = "analyzed"
    /\ flow' = build_candidate_flow(analyzed)
    /\ pc' = "built"
    /\ UNCHANGED <<final, pwb, pvm, sso, again, vmd, har, args, entries, analyzed, diagram, steps, jar, net, resp, fbi,
                   report, exc, html, decoded>>

\* diagram = generate_ascii_diagram(flow)
Diagram ==
    /\ pc = "built"
    /\ LET d == generate_ascii_diagram(analyzed, flow)
       IN  IF d.raised
           THEN Crash(d.exc, "generate_ascii_diagram") /\ UNCHANGED diagram
           ELSE pc' = "diagrammed" /\ diagram' = d /\ UNCHANGED exc
    /\ UNCHANGED <<final, pwb, pvm, sso, again, vmd, har, args, entries, analyzed, flow, steps, jar, net, resp, fbi,
                   report, html, decoded>>

(***************************************************************************)
(* replay_flow                                                             *)
(***************************************************************************)
Truthy(o) == o.some /\ o.v # <<>>

Request(method, url, data) == [method |-> method, url |-> url, data |-> data]

\* the except clause of replay_flow runs: the ERROR step is recorded and the
\* replay goes to its finalisation, unless the exception leaves replay_flow
Handle(error) ==
    LET h == OuterHandler(steps, error)
    IN  /\ steps' = h.steps
        /\ resp' = [resp EXCEPT !.handled = TRUE]
        /\ IF h.escaped
           THEN Crash(error, "replay_flow")
           ELSE pc' = "replay_final" /\ UNCHANGED exc

\* session = requests.Session(); report_steps = []; the choice of start_url
ReplayStart ==
    /\ pc = "diagrammed"
    /\ steps' = <<>>
    /\ jar' = <<>>
    /\ pc' = IF Truthy(StartUrl(args, analyzed, flow)) THEN "replay_get"
             ELSE "replay_final"
    /\ UNCHANGED <<final, pwb, pvm, sso, again, vmd, har, args, entries, analyzed, flow, diagram, net, resp, fbi,
                   report, exc, html, decoded>>

\* r = session.get(start_url, allow_redirects=True), the GET step and
\* find_first_form(r.text)
ReplayGet ==
    /\ pc = "replay_get"
    /\ LET url == StartUrl(args, analyzed, flow)
       IN  IF ~CanSend(SomeS(S_GET), url)
           THEN Handle("InvalidURL") /\ UNCHANGED <<jar, net, fbi>>
           ELSE \E o \in ServerOutcomes(flow) :
                  /\ net' = Append(net, Request(SomeS(S_GET), url, <<>>))
                  /\ jar' = JarUpdate(jar, o.cookies)
                  /\ IF o.raised
                     THEN Handle("ConnectionError") /\ UNCHANGED fbi
                     ELSE /\ steps' = Append(steps, GetStep(url.v, o, get_dict(jar')))
                          /\ resp' = [resp EXCEPT !.get = o]
                          /\ fbi' = 1
                          /\ pc' = IF find_first_form(o.body.page) # <<>>
                                   THEN "replay_submit" ELSE "replay_fallback"
                          /\ UNCHANGED exc
    /\ UNCHANGED <<final, pwb, pvm, sso, again, vmd, har, args, entries, analyzed, flow, diagram, report, html, decoded>>

\* the form branch decoding the page of the initial GET instead
SubmitDecodeSourceInitial(r, r2) == r.body

\* the page decode_saml_response_from_html is given in the form branch, r being
\* the response to the GET and r2 the response to the form submission
SubmitDecodeSource(r, r2) == r2.body

\* r2 = submit_form_soup(session, start_url, form, username, password), the
\* SUBMIT_FORM step and the decode of r2.text
ReplaySubmit ==
    /\ pc = "replay_submit"
    /\ LET form == find_first_form(resp.get.body.page)[1]
           req == FormRequest(StartUrl(args, analyzed, flow).v, form,
                              args.username, args.password)
       IN  IF req.url.v = ValueError
           THEN Handle("ValueError") /\ UNCHANGED <<jar, net>>
           ELSE IF ~CanSend(req.method, req.url)
           THEN Handle("InvalidURL") /\ UNCHANGED <<jar, net>>
           ELSE \E o \in SubmitOutcomes(flow) :
                  /\ net' = Append(net, req)
                  /\ jar' = JarUpdate(jar, o.cookies)
                  /\ IF o.raised
                     THEN Handle("ConnectionError")
                     ELSE /\ steps' = WithDecode(Append(steps, SubmitStep(o, get_dict(jar'))),
                                                 SubmitDecodeSource(resp.get, o))
                          /\ resp' = [resp EXCEPT !.submit = o]
                          /\ pc' = "replay_final"
                          /\ UNCHANGED exc
    /\ UNCHANGED <<final, pwb, pvm, sso, again, vmd, har, args, entries, analyzed, flow, diagram, fbi, report, html,
                   decoded>>

\* one turn of for e in flow_entries[:10]
ReplayFallback ==
    /\ pc = "replay_fallback"
    /\ IF fbi > Len(FallbackEntries(flow))
       THEN /\ pc' = "replay_final"
            /\ UNCHANGED <<steps, jar, net, resp, fbi, exc>>
       ELSE LET e == analyzed[flow[fbi]]
                kind == FallbackKind(e)
                req == FallbackRequest(e, args.username, args.password)
            IN  CASE kind = "skip" ->
                       /\ fbi' = fbi + 1
                       /\ UNCHANGED <<pc, steps, jar, net, resp, exc>>
                  [] kind = "raise" ->
                       /\ Handle("AttributeError")
                       /\ UNCHANGED <<jar, net, fbi>>
                  [] OTHER ->
                       IF ~CanSend(req.method, req.url)
                       THEN /\ steps' = Append(steps, ReplayFailedStep(e.url, "InvalidURL"))
                            /\ fbi' = fbi + 1
                            /\ UNCHANGED <<pc, jar, net, resp, exc>>
                       ELSE \E o \in ServerOutcomes(flow) :
                              /\ net' = Append(net, req)
                              /\ jar' = JarUpdate(jar, o.cookies)
                              /\ UNCHANGED <<resp, exc>>
                              /\ IF o.raised
                                 THEN /\ steps' = Append(steps,
                                            ReplayFailedStep(e.url, "ConnectionError"))
                                      /\ fbi' = fbi + 1
                                      /\ UNCHANGED pc
                                 ELSE /\ steps' = WithDecode(
                                            Append(steps, ReplayStep(e.url, o, get_dict(jar'))),
                                            o.body)
                                      /\ IF YieldsSaml(o.body)
                                         THEN pc' = "replay_final" /\ UNCHANGED fbi
                                         ELSE fbi' = fbi + 1 /\ UNCHANGED pc
    /\ UNCHANGED <<final, pwb, pvm, sso, again, vmd, har, args, entries, analyzed, flow, diagram, report, html, decoded>>

\* final_cookies = session.cookies.get_dict(), the report and the tokens found
ReplayFinalize ==
    /\ pc = "replay_final"
    /\ report' = Report(get_dict(jar), steps)
    /\ pc' = "replayed"
    /\ UNCHANGED <<final, pwb, pvm, sso, again, vmd, har, args, entries, analyzed, flow, diagram, steps, jar, net, resp,
                   fbi, exc, html, decoded>>

\* final_report and json.dump(final_report, f)
WriteReport ==
    /\ pc = "replayed"
    /\ final' = final_report(entries, analyzed, flow, diagram, report)
    /\ pc' = "written"
    /\ UNCHANGED <<pwb, pvm, sso, again, vmd, har, args, entries, analyzed, flow, diagram, steps, jar, net, resp,
                   fbi, report, exc, html, decoded>>

Next ==
    \/ LoadHar
    \/ Analyze
    \/ BuildFlow
    \/ Diagram
    \/ ReplayStart
    \/ ReplayGet
    \/ ReplaySubmit
    \/ ReplayFallback
    \/ ReplayFinalize
    \/ WriteReport

Spec == Init /\ [][Next]_vars

NextFlow ==
    \/ LoadHar
    \/ Analyze
    \/ BuildFlow
    \/ Diagram

SpecFlow == InitFlow /\ [][NextFlow]_vars

(***************************************************************************)
(* decode_saml_response_from_html on its own, over pages with one or two   *)
(* input elements                                                          *)
(***************************************************************************)
\* the longest text a server encodes into a SAMLResponse value
MaxTextLen == 2

\* the longest value enumerated character by character
MaxValueLen == 3

\* SaMlReSpOnSe
S_SaMlReSpOnSe == <<"S","a","M","l","R","e","S","p","O","n","S","e">>

\* the code points of h, <, e-acute and the euro sign: one, two and three UTF-8 bytes
TextAlphabet == {104, 60, 233, 8364}

DecodeTexts == SeqsUpTo(TextAlphabet, MaxTextLen)

\* the value a server sends for each text
SamlValueOf == [t \in DecodeTexts |-> SamlValue(t)]

\* base64 characters, padding, a character outside the alphabet and a
\* character outside ASCII
ValueAlphabet == {"a", "G", "/", "=", "\n", "U+00E9"}

DecodeValues ==
    {NoneS} \cup {SomeS(v) : v \in SeqsUpTo(ValueAlphabet, MaxValueLen)}
            \cup {SomeS(SamlValueOf[t]) : t \in DecodeTexts}

DecodeNames ==
    {NoneS, SomeS(S_SAMLResponse), SomeS(S_samlresponse), SomeS(S_SaMlReSpOnSe),
     SomeS(S_RelayState)}

\* the values the inputs of a two-input page carry
PairValues ==
    {NoneS, SomeS(<<>>), SomeS(<<"a">>), SomeS(SamlValue(T_hello)),
     SomeS(SamlValue(T_xml))}

DecodePages ==
    {<<Control("input", n, v)>> : n \in DecodeNames, v \in DecodeValues}
        \cup {<<Control("textarea", SomeS(S_SAMLResponse), v)>> : v \in PairValues}
        \cup {<<Form(NoneS, NoneS, <<Field("input", n, v)>>)>> :
                  n \in DecodeNames, v \in PairValues}
        \cup {<<Control("input", n1, v1), Control("input", n2, v2)>> :
                  n1 \in DecodeNames, v1 \in PairValues,
                  n2 \in {SomeS(S_SAMLResponse), SomeS(S_samlresponse)},
                  v2 \in PairValues}
        \cup {<<>>}

InitDecode ==
    /\ again = <<>>
    /\ final = NoFinal
    /\ pwb = NoBatch
    /\ pvm = NoProcess
    /\ sso = NoLogin
    /\ vmd = NoVmd
    /\ pc = "decode"
    /\ html \in DecodePages
    /\ decoded = Pending
    /\ har = HarOk(<<>>)
    /\ args = Args(NoneS, NoneS, NoneS)
    /\ entries = <<>>
    /\ analyzed = <<>>
    /\ flow = <<>>
    /\ diagram = NoDiagram
    /\ steps = <<>>
    /\ jar = <<>>
    /\ net = <<>>
    /\ resp = NoLocals
    /\ fbi = 0
    /\ report = NoReport
    /\ exc = NoExc

\* saml = decode_saml_response_from_html(html_text)
Decode ==
    /\ pc = "decode"
    /\ decoded' = decode_saml_response_from_html(html)
    /\ pc' = "decoded"
    /\ UNCHANGED <<final, pwb, pvm, sso, again, vmd, har, args, entries, analyzed, flow, diagram, steps, jar, net, resp,
                   fbi, report, exc, html>>

NextDecode == Decode

SpecDecode == InitDecode /\ [][NextDecode]_vars

(***************************************************************************)
(* Properties                                                              *)
(***************************************************************************)
\* analyze_entries has run in main()
AnalysisDone ==
    pc \in {"analyzed", "built", "diagrammed"}
        \/ (pc = "crashed" /\ exc.at = "generate_ascii_diagram")

\* build_candidate_flow has run in main()
FlowBuilt ==
    pc \in {"built", "diagrammed"}
        \/ (pc = "crashed" /\ exc.at = "generate_ascii_diagram")

NoAuthLike == \A i \in 1..Len(analyzed) : ~analyzed[i].is_auth_like

\* the number of exchanges the fallback keeps
FallbackLen == Min(FlowCap, Len(analyzed))

\* the timestamp an exchange is ordered by, an absent one counting as 0
TimeKey(i) == IF analyzed[i].time.some THEN analyzed[i].time.v ELSE 0

\* C1, as stated: when no exchange is auth-like, the flow is the first
\* min(50, total) exchanges in their original archive order, for any timestamps.
C1_FallbackInArchiveOrder ==
    (FlowBuilt /\ NoAuthLike) => flow = [k \in 1..FallbackLen |-> k]

\* C1, amended: when no exchange is auth-like, the flow has length
\* min(50, total) and holds each of the first min(50, total) exchanges once,
\* ordered by ascending timestamp (an absent timestamp counting as 0), exchanges
\* with equal timestamps in archive order; it is in archive order when the
\* timestamps of those exchanges never decrease.
C1_FallbackSortedPrefix ==
    (FlowBuilt /\ NoAuthLike) =>
        /\ Len(flow) = FallbackLen
        /\ {flow[k] : k \in 1..Len(flow)} = 1..FallbackLen
        /\ \A k \in 1..(Len(flow) - 1) :
              \/ TimeKey(flow[k]) < TimeKey(flow[k + 1])
              \/ TimeKey(flow[k]) = TimeKey(flow[k + 1]) /\ flow[k] < flow[k + 1]
        /\ (\A i \in 1..(FallbackLen - 1) : TimeKey(i) <= TimeKey(i + 1))
              => flow = [k \in 1..FallbackLen |-> k]

\* an archive longer than the cap, without auth-like exchange, whose flow is cut
\* at the cap and is not in archive order
C1_Witness ==
    /\ FlowBuilt
    /\ NoAuthLike
    /\ Len(analyzed) > FlowCap
    /\ Len(flow) = FlowCap
    /\ flow # [k \in 1..FlowCap |-> k]

\* the URL of raw exchange i contains saml in some case
SamlInUrl(i) == entries[i].url.some /\ Contains(S_saml, LowerStr(entries[i].url.v))

\* how many times exchange i occurs in the flow
TimesInFlow(i) == Cardinality({k \in 1..Len(flow) : flow[k] = i})

\* C2: every exchange whose URL contains saml in any case is auth-like and is
\* in the flow; when some exchange is auth-like, the flow holds each auth-like
\* exchange once and no other exchange.
C2_SamlUrlSelected ==
    /\ AnalysisDone =>
          /\ Len(analyzed) = Len(entries)
          /\ \A i \in 1..Len(entries) : SamlInUrl(i) => analyzed[i].is_auth_like
    /\ FlowBuilt =>
          /\ \A i \in 1..Len(entries) : SamlInUrl(i) => TimesInFlow(i) = 1
          /\ ~NoAuthLike =>
                /\ \A k \in 1..Len(flow) : flow[k] \in 1..Len(analyzed)
                /\ \A i \in 1..Len(analyzed) :
                      TimesInFlow(i) = IF analyzed[i].is_auth_like THEN 1 ELSE 0

\* an archive with more auth-like exchanges than the fallback cap, among them an
\* exchange whose only auth signal is SAML, in upper case, in its URL, and with
\* an exchange that is left out of the flow
C2_Witness ==
    /\ FlowBuilt
    /\ Len(flow) > FlowCap
    /\ \E i \in 1..Len(entries) :
          /\ SamlInUrl(i)
          /\ ~Contains(S_saml, entries[i].url.v)
          /\ entries[i].postData.kind = "absent"
          /\ TimesInFlow(i) = 1
    /\ \E j \in 1..Len(analyzed) : ~analyzed[j].is_auth_like /\ TimesInFlow(j) = 0

(***************************************************************************)
(* replay_flow called on its own, on the flow of any analysed archive      *)
(***************************************************************************)
\* a parameterised POST without url, and one without method
E_nourl_post ==
    [BaseEntry EXCEPT !.method = SomeS(S_POST),
                      !.postData = PostDict(<<Param(NameStr(S_username), ValueStr(S_xyz))>>)]
E_nomethod ==
    [BaseEntry EXCEPT !.url = SomeS(U_a), !.method = NoneS,
                      !.postData = PostDict(<<Param(NameStr(S_username), ValueStr(S_xyz))>>)]

ReplayPool ==
    {E_a, E_login, E_posttext, E_postempty, E_nourl_post, E_nomethod, E_null_last, E_rel}

\* the longest archive enumerated over ReplayPool
MaxReplayEntries == 2

\* POSTs with one parameter, to hosts a and b, without auth-like URL or name
E_a_post ==
    [BaseEntry EXCEPT !.url = SomeS(U_a), !.method = SomeS(S_POST),
                      !.postData = PostDict(<<Param(NameStr(S_note), ValueStr(S_xyz))>>)]
E_b_post ==
    [BaseEntry EXCEPT !.url = SomeS(U_b), !.method = SomeS(S_POST),
                      !.postData = PostDict(<<Param(NameStr(S_note), ValueStr(S_abc123))>>)]

\* an archive of n entries: plain GETs of host a, then POSTs to host a, and
\* last a POST to host b
LongReplay(plain, n) ==
    [i \in 1..n |-> IF i <= plain THEN E_a0 ELSE IF i < n THEN E_a_post ELSE E_b_post]

\* flows longer than the fallback loop: the POST to b at position 11 after no
\* other POST, after one other POST, and at position 12 after eleven POSTs
LongReplayHars ==
    {HarOk(LongReplay(FallbackCap, FallbackCap + 1)),
     HarOk(LongReplay(FallbackCap - 1, FallbackCap + 1)),
     HarOk(LongReplay(0, FallbackCap + 2))}

ReplayHars ==
    {HarOk(es) : es \in SeqsUpTo(ReplayPool, MaxReplayEntries)} \cup LongReplayHars

\* the state at the call replay_flow(flow, start_url, username, password)
InitReplay ==
    /\ again = <<>>
    /\ final = NoFinal
    /\ pwb = NoBatch
    /\ pvm = NoProcess
    /\ sso = NoLogin
    /\ vmd = NoVmd
    /\ pc = "diagrammed"
    /\ har \in ReplayHars
    /\ args \in ArgPool
    /\ entries = har.entries
    /\ analyzed = analyze_entries(entries)
    /\ flow = build_candidate_flow(analyzed)
    /\ diagram = NoDiagram
    /\ steps = <<>>
    /\ jar = <<>>
    /\ net = <<>>
    /\ resp = NoLocals
    /\ fbi = 0
    /\ report = NoReport
    /\ exc = NoExc
    /\ html = <<>>
    /\ decoded = Pending

NextReplay ==
    \/ ReplayStart
    \/ ReplayGet
    \/ ReplaySubmit
    \/ ReplayFallback
    \/ ReplayFinalize

SpecReplay == InitReplay /\ [][NextReplay]_vars

\* the positions of the ERROR steps in the step list
ErrorSteps == {k \in 1..Len(steps) : steps[k].action = "ERROR"}

\* replay_flow has returned
Replayed == pc \in {"replayed", "written"}

\* C3: no exception leaves replay_flow, whatever the flow, the start URL and the
\* outcome of each request; it returns a report holding the steps and the
\* cookies; when the outer handler ran, the step list holds exactly one ERROR
\* step and it is the last step, and otherwise it holds none.
C3_ReplayNeverRaises ==
    /\ pc # "crashed"
    /\ exc = NoExc
    /\ resp.handled =>
          /\ pc \in {"replay_final", "replayed", "written"}
          /\ Cardinality(ErrorSteps) = 1
          /\ steps[Len(steps)].action = "ERROR"
    /\ ~resp.handled => ErrorSteps = {}
    /\ Replayed => report.steps = steps /\ report.final_cookies = get_dict(jar)

\* the form submission raised after a successful GET: the report returned ends
\* with the one ERROR step
C3_Witness ==
    /\ pc = "replayed"
    /\ resp.handled
    /\ Len(net) = 2
    /\ Len(report.steps) = 2
    /\ report.steps[1].action = "GET"
    /\ report.steps[2].action = "ERROR"

\* C4: at the finalization of replay_flow the report's found_samlToken is the
\* value of the cookie named exactly samlToken when the final cookie jar holds
\* one (the last of the jar when several hosts have set one), and is not set
\* otherwise (a cookie named samltoken or SAMLTOKEN does not count), with or
\* without an ERROR step.
C4_TokenSurfacing ==
    Replayed =>
        /\ report.final_cookies = get_dict(jar)
        /\ report.found_samlToken.some <=> \E i \in 1..Len(jar) : jar[i].k = S_samlToken
        /\ \A i \in 1..Len(jar) :
              (jar[i].k = S_samlToken /\ \A m \in (i + 1)..Len(jar) : jar[m].k # S_samlToken)
                  => report.found_samlToken = SomeS(jar[i].v)

\* a run that ended with an ERROR step, whose jar holds samlToken beside a
\* cookie named samltoken, and whose report surfaces the value of samlToken
C4_Witness ==
    /\ pc = "written"
    /\ ErrorSteps # {}
    /\ \E i \in 1..Len(jar) : jar[i].k = S_samltoken
    /\ \E i \in 1..Len(jar) : jar[i].k = S_samlToken /\ jar[i].v = S_abc123
    /\ report.found_samlToken = SomeS(S_abc123)

\* the hostnames of the flow's URLs, in flow order; a URL that urlparse
\* refuses has none
FlowHostnames ==
    [k \in 1..Len(flow) |->
        IF urlsplit(OrEmpty(analyzed[flow[k]].url)).raised THEN <<>>
        ELSE Netloc(OrEmpty(analyzed[flow[k]].url))]

\* the distinct hostnames of the flow in first-seen order; a URL without
\* hostname (relative, or absent) contributes none
DistinctHostnames ==
    LET rows == [k \in 1..Len(flow) |-> [k |-> k, host |-> FlowHostnames[k]]]
        New(r) == /\ r.host # <<>>
                  /\ \A j \in 1..(r.k - 1) : FlowHostnames[j] # r.host
        first == SelectSeq(rows, New)
    IN  [i \in 1..Len(first) |-> first[i].host]

\* the topology lines of the diagram of the given kind
LinesOfKind(kind) ==
    LET Is(l) == l.kind = kind
    IN  SelectSeq(diagram.topology, Is)

\* C5: the diagram names the first distinct hostname of the flow as the SP and
\* has exactly one IdP hop line per further distinct hostname, each once, in
\* first-seen order; a flow with a single distinct hostname has one Browser->SP
\* line and no IdP hop line.
C5_DiagramHostOrder ==
    (pc = "diagrammed" /\ DistinctHostnames # <<>>) =>
        /\ Len(LinesOfKind("browser_sp")) = 1
        /\ LinesOfKind("browser_sp")[1].sp = DistinctHostnames[1]
        /\ [i \in 1..Len(LinesOfKind("sp_idp")) |-> LinesOfKind("sp_idp")[i].idp]
              = Tail(DistinctHostnames)

\* raw exchange i carries a POST parameter named name in some case
HasParamNamed(i, name) ==
    /\ entries[i].postData.kind = "dict"
    /\ \E j \in 1..Len(entries[i].postData.params) :
          /\ entries[i].postData.params[j].name.k = "str"
          /\ LowerStr(entries[i].postData.params[j].name.s) = name

\* C6: an exchange with a POST parameter named samlrequest, samlresponse or
\* relaystate in any case is auth-like whatever its URL; the diagram has a detail
\* line for every exchange of the flow, and its tags hold SAMLRequest exactly
\* when the exchange has a parameter named samlrequest, and SAMLResponse exactly
\* when it has one named samlresponse.
C6_ParamClassification ==
    /\ AnalysisDone =>
          \A i \in 1..Len(entries) :
              (\E name \in SamlParamNames : HasParamNamed(i, name))
                  => analyzed[i].is_auth_like
    /\ pc = "diagrammed" =>
          /\ Len(diagram.details) = Len(flow)
          /\ \A k \in 1..Len(flow) :
                /\ "SAMLRequest" \in Range(diagram.details[k].tags)
                      <=> HasParamNamed(flow[k], S_samlrequest)
                /\ "SAMLResponse" \in Range(diagram.details[k].tags)
                      <=> HasParamNamed(flow[k], S_samlresponse)

\* the texts the servers encode, two shorter than the snippet of a SAML_DECODE
\* step and one longer
ServedTexts == {T_xml, T_hello, T_long}

\* the SAMLResponse value a server sends for each of them
ServedValue == [t \in ServedTexts |-> SamlValue(t)]

\* the response to the initial GET, when the GET got one
GetPage == resp.get.body.page

\* the first form of the page the initial GET landed on holds an input named
\* SAMLResponse whose value is the base64 of text t
GetFormCarries(t) ==
    /\ ~resp.get.raised
    /\ find_first_form(GetPage) # <<>>
    /\ \E j \in 1..Len(find_first_form(GetPage)[1].fields) :
          find_first_form(GetPage)[1].fields[j]
              = Field("input", SomeS(S_SAMLResponse), SomeS(ServedValue[t]))

\* the step list holds a SAML_DECODE step whose snippet starts with t
DecodeStepStartsWith(t) ==
    \E k \in 1..Len(steps) :
        /\ steps[k].action = "SAML_DECODE"
        /\ Len(steps[k].snippet) >= Len(t)
        /\ SubSeq(steps[k].snippet, 1, Len(t)) = t


\* C7, as stated: when the initial GET lands on a page with a form holding a
\* SAMLResponse input whose value is the base64 of T, the steps replay_flow
\* returns hold a SAML_DECODE step whose snippet starts with T, whatever the
\* response to the form submission holds (the submission having got a response).
C7_DecodesInitialPage ==
    (Replayed /\ ~resp.submit.raised) =>
        \A t \in ServedTexts : GetFormCarries(t) => DecodeStepStartsWith(t)

\* the page that came back from the form submission holds exactly one input
\* named samlresponse in some case, and its value is the base64 of text t
SubmitPageCarries(t) ==
    LET fs == PageFields(resp.submit.body.page)
        Named(f) == /\ f.tag = "input"
                    /\ f.name.some
                    /\ LowerStr(f.name.v) = S_samlresponse
    IN  /\ ~resp.submit.raised
        /\ Len(SelectSeq(fs, Named)) = 1
        /\ SelectSeq(fs, Named)[1].value = SomeS(ServedValue[t])

\* the page that came back from the form submission holds no input named
\* samlresponse in any case
SubmitPageHasNone ==
    /\ ~resp.submit.raised
    /\ \A j \in 1..Len(PageFields(resp.submit.body.page)) :
          LET f == PageFields(resp.submit.body.page)[j]
          IN  ~(f.tag = "input" /\ f.name.some /\ LowerStr(f.name.v) = S_samlresponse)

\* C7, amended: when the initial GET lands on a page with a form, the form is
\* submitted and the page that comes back from the submission is the one
\* decoded: the steps are GET, SUBMIT_FORM and a SAML_DECODE step whose snippet
\* is the first 2000 characters of T (T itself when T has no more) when that
\* page holds a SAMLResponse input with the base64 of a non-empty T, and hold
\* no SAML_DECODE step when that page holds no such input, whatever
\* SAMLResponse the form of the initial page carried.
C7_DecodesSubmissionPage ==
    Replayed =>
        /\ \A t \in ServedTexts :
              SubmitPageCarries(t) =>
                  /\ Len(steps) = 3
                  /\ steps[1].action = "GET"
                  /\ steps[2].action = "SUBMIT_FORM"
                  /\ steps[3].action = "SAML_DECODE"
                  /\ steps[3].snippet = IF Len(t) > 2000 THEN SubSeq(t, 1, 2000) ELSE t
        /\ SubmitPageHasNone =>
              \A k \in 1..Len(steps) : steps[k].action # "SAML_DECODE"

\* the initial page carried the SAMLResponse of one text in its form, the page
\* returned by the submission that of a text of more than 2000 characters, and
\* the first 2000 characters of the latter are the snippet, which therefore
\* starts with neither text
C7_Witness ==
    /\ Replayed
    /\ GetFormCarries(T_xml)
    /\ SubmitPageCarries(T_long)
    /\ Len(T_long) > 2000
    /\ Len(steps) = 3
    /\ steps[3].action = "SAML_DECODE"
    /\ steps[3].snippet = SubSeq(T_long, 1, 2000)
    /\ steps[3].snippet # T_long
    /\ ~DecodeStepStartsWith(T_long)
    /\ ~DecodeStepStartsWith(T_xml)

\* the inputs of the page named samlresponse in some case
SamlInputs ==
    LET Named(f) == /\ f.tag = "input"
                    /\ f.name.some
                    /\ LowerStr(f.name.v) = S_samlresponse
    IN  SelectSeq(PageFields(html), Named)

\* C8: on a page whose one input named SAMLResponse (in any case) has the base64
\* of a text T as value, decode_saml_response_from_html returns exactly T; it
\* returns None when the page has no such input or the input has no value or an
\* empty one (the base64 of the empty text is the empty value); and on every
\* page it returns None or a text, an undecodable value giving a text.
C8_DecodeRoundTrip ==
    pc = "decoded" =>
        /\ decoded.kind \in {"none", "text"}
        /\ SamlInputs = <<>> => decoded = DecodeNone
        /\ Len(SamlInputs) = 1 =>
              LET v == SamlInputs[1].value
              IN  /\ (~v.some \/ v.v = <<>>) => decoded = DecodeNone
                  /\ (v.some /\ v.v # <<>>) => decoded.kind = "text"
                  /\ \A t \in DecodeTexts :
                        (t # <<>> /\ v = SomeS(SamlValueOf[t])) => decoded = DecodeText(t)

\* an input named in lower case carrying a text of one- and two-byte characters
C8_Witness ==
    /\ pc = "decoded"
    /\ html = <<Control("input", SomeS(S_samlresponse), SomeS(SamlValue(<<104, 233>>)))>>
    /\ decoded = DecodeText(<<104, 233>>)

\* main() has gone past the loading of the archive
PastLoading == pc \notin {"start", "crashed"} \/ (pc = "crashed" /\ exc.at # "load_har"
                                                    /\ exc.at # "extract_entries")

\* C9: when the HAR file is not valid JSON or its document lacks log.entries,
\* the run fails with a parse error while loading, produces no exchange
\* sequence (not even an empty one) and issues no replay request, with or
\* without --start-url.
C9_ParseFailureFatal ==
    har.kind \in {"invalid_json", "no_log", "no_entries"} =>
        /\ ~PastLoading
        /\ pc = "crashed" => exc.at \in {"load_har", "extract_entries"}
        /\ net = <<>>

\* C10: once the HAR has been loaded, nothing in an individual exchange ends the
\* run before the report is written: no exception leaves analyze_entries,
\* build_candidate_flow, generate_ascii_diagram or replay_flow, also when an
\* exchange has no url.
C10_ExchangeAnomaliesTolerated ==
    pc = "crashed" => exc.at \in {"load_har", "extract_entries"}

\* C11: in every flow build_candidate_flow returns, tagged or fallback, of two
\* exchanges that both carry a timestamp the one placed earlier has a timestamp
\* less than or equal to that of the one placed later.
C11_FlowOrderedByTime ==
    FlowBuilt =>
        \A k \in 1..Len(flow) : \A l \in (k + 1)..Len(flow) :
            (analyzed[flow[k]].time.some /\ analyzed[flow[l]].time.some)
                => analyzed[flow[k]].time.v <= analyzed[flow[l]].time.v

\* a tagged flow in which an exchange that comes later in the archive and
\* carries a smaller timestamp was moved before an earlier one, past an
\* exchange without timestamp
C11_Witness ==
    /\ FlowBuilt
    /\ ~NoAuthLike
    /\ \E k \in 1..Len(flow) : \E l \in (k + 1)..Len(flow) :
          /\ analyzed[flow[k]].time.some
          /\ analyzed[flow[l]].time.some
          /\ analyzed[flow[k]].time.v < analyzed[flow[l]].time.v
          /\ flow[k] > flow[l]
    /\ \E k \in 1..Len(flow) : ~analyzed[flow[k]].time.some

\* the position exchange i has among the selected exchanges in archive order
ArchiveRank(i) == Cardinality({k \in 1..Len(flow) : flow[k] <= i})

\* C12, as stated: the analysis leaves an absent timestamp unset, and in the
\* flow an exchange without timestamp is at the position it has among the
\* selected exchanges in archive order.
C12_UnsetKeepsPosition ==
    /\ AnalysisDone =>
          /\ Len(analyzed) = Len(entries)
          /\ \A i \in 1..Len(entries) : analyzed[i].time = entries[i].time
    /\ FlowBuilt =>
          \A k \in 1..Len(flow) :
              ~analyzed[flow[k]].time.some => ArchiveRank(flow[k]) = k

\* C12, amended: the analysis leaves an absent timestamp unset; in the flow an
\* exchange without timestamp is ordered as if its timestamp were 0: after every
\* selected exchange with a negative timestamp, before every selected exchange
\* with a positive one, and in archive order relative to the selected exchanges
\* whose timestamp is unset or 0.
C12_UnsetOrderedAsZero ==
    /\ AnalysisDone =>
          /\ Len(analyzed) = Len(entries)
          /\ \A i \in 1..Len(entries) : analyzed[i].time = entries[i].time
    /\ FlowBuilt =>
          \A k \in 1..Len(flow) : \A l \in 1..Len(flow) :
              (~analyzed[flow[k]].time.some /\ l # k) =>
                  LET t == analyzed[flow[l]].time
                  IN  /\ (t.some /\ t.v < 0) => l < k
                      /\ (t.some /\ t.v > 0) => k < l
                      /\ (~t.some \/ t.v = 0) => (l < k <=> flow[l] < flow[k])

\* an exchange without timestamp that follows one with a positive timestamp in
\* the archive and precedes it in the flow, a negative one before both
C12_Witness ==
    /\ FlowBuilt
    /\ \E k \in 1..Len(flow) : \E l \in (k + 1)..Len(flow) :
          /\ ~analyzed[flow[k]].time.some
          /\ analyzed[flow[l]].time.some
          /\ analyzed[flow[l]].time.v > 0
          /\ flow[l] < flow[k]
    /\ \E k \in 1..Len(flow) :
          analyzed[flow[k]].time.some /\ analyzed[flow[k]].time.v < 0

(***************************************************************************)
(* extract_entries and analyze_entries run again on the HAR document held  *)
(* in memory, and analyze_entries run on its own output                    *)
(***************************************************************************)
\* what analyze_entries reads of an exchange it has normalized: the normalized
\* dict has no 'request' and no 'response' key, so url, method, status and
\* postData read as None; its top-level 'time' is read as it is
AsRawEntry(a) ==
    [url |-> NoneS, method |-> NoneS, status |-> NoneI, postData |-> NoPost,
     time |-> a.time, request |-> "absent", response |-> "absent",
     req_headers |-> NoHeaders, resp_headers |-> NoHeaders]

\* a second extract_entries(har) + analyze_entries on the same document: the
\* list extract_entries returns is the one the first pass was given
AnalyzeAgain ==
    /\ pc = "analyzed"
    /\ again' = analyze_entries(entries)
    /\ entries' = InputAfterAnalyze(entries)
    /\ pc' = "reanalyzed"
    /\ UNCHANGED <<final, pwb, pvm, sso, vmd, har, args, analyzed, flow, diagram, steps, jar, net, resp,
                   fbi, report, exc, html, decoded>>

\* analyze_entries(analyzed): the classifier applied to the exchanges it has
\* already normalized and tagged
Reclassify ==
    /\ pc = "reanalyzed"
    /\ again' = analyze_entries([i \in 1..Len(analyzed) |-> AsRawEntry(analyzed[i])])
    /\ pc' = "reclassified"
    /\ UNCHANGED <<final, pwb, pvm, sso, vmd, har, args, entries, analyzed, flow, diagram, steps, jar, net,
                   resp, fbi, report, exc, html, decoded>>

NextLoader ==
    \/ LoadHar
    \/ Analyze
    \/ AnalyzeAgain
    \/ Reclassify

SpecLoader == InitFlow /\ [][NextLoader]_vars

C14_ClassifierIdempotent ==
    pc = "reclassified" =>
        /\ Len(again) = Len(analyzed)
        /\ \A i \in 1..Len(analyzed) :
              /\ again[i].is_auth_like = analyzed[i].is_auth_like
              /\ again[i].post_param_names = analyzed[i].post_param_names

(***************************************************************************)
(* vm_decommission.py: VMDecommissioner.decommission_batch running         *)
(* decommission_vm for every request on a pool of max_workers threads      *)
(***************************************************************************)
MaxBatch == 3
MaxWorkers == 2

\* response_data of a DecommissionResult
NoData == [some |-> FALSE, dry_run |-> FALSE, status |-> ""]
\* {"dry_run": True, "status": "simulated"}
SimulatedData == [some |-> TRUE, dry_run |-> TRUE, status |-> "simulated"]
\* response.json() of the cancel web service
ServerData == [some |-> TRUE, dry_run |-> FALSE, status |-> "cancelled"]

\* what PSSITClient.decommission_subscription does once called: the POST
\* succeeds and is answered with a JSON object, or with the JSON text null,
\* raise_for_status raises HTTPError, the POST raises another
\* RequestException, or an exception of another class leaves the method
ClientOutcomes == {"ok", "ok_null", "http_error", "network_error", "unexpected"}

\* (success, error_msg, response_data) returned by decommission_subscription;
\* raised is set when the exception leaves the method
decommission_subscription(o) ==
    CASE o = "ok" ->
            [raised |-> FALSE, success |-> TRUE, error_msg |-> "", response_data |-> ServerData]
      [] o = "ok_null" ->
            [raised |-> FALSE, success |-> TRUE, error_msg |-> "", response_data |-> NoData]
      [] o = "http_error" ->
            [raised |-> FALSE, success |-> FALSE, error_msg |-> "Erreur HTTP",
             response_data |-> NoData]
      [] o = "network_error" ->
            [raised |-> FALSE, success |-> FALSE, error_msg |-> "Erreur reseau",
             response_data |-> NoData]
      [] OTHER ->
            [raised |-> TRUE, success |-> FALSE, error_msg |-> "", response_data |-> NoData]

DecommissionResult(vm, status, error_message, response_data) ==
    [vm |-> vm, status |-> status, error_message |-> error_message,
     response_data |-> response_data]

NoResult == DecommissionResult(0, "PENDING", "", NoData)

\* a decommission_vm that never takes the dry-run branch
DryRunBranchIgnored(d) == FALSE

\* if self.dry_run:
DryRunBranch(d) == d

\* the result decommission_vm builds from (success, error_msg, response_data),
\* or in its except clause
ResultOf(vm, c) ==
    IF c.raised
    THEN DecommissionResult(vm, "FAILED", "Exception inattendue", NoData)
    ELSE DecommissionResult(vm, IF c.success THEN "SUCCESS" ELSE "FAILED",
                            c.error_msg, c.response_data)

VmTask(phase, result) == [phase |-> phase, result |-> result]

\* the threads of the pool that are inside decommission_vm
Running(ts) == Cardinality({j \in 1..Len(ts) : ts[j].phase \in {"running", "calling"}})

\* VMDecommissioner(client, max_workers, dry_run) and the requests of a batch
\* submitted to the executor
InitVm ==
    /\ pc = "vm"
    /\ \E d \in BOOLEAN, w \in 1..MaxWorkers, n \in 0..MaxBatch :
          vmd = [dry_run |-> d, max_workers |-> w,
                 tasks |-> [i \in 1..n |-> VmTask("queued", NoResult)],
                 calls |-> <<>>, results |-> <<>>, returned |-> FALSE]
    /\ again = <<>>
    /\ final = NoFinal
    /\ pwb = NoBatch
    /\ pvm = NoProcess
    /\ sso = NoLogin
    /\ har = HarOk(<<>>)
    /\ args = Args(NoneS, NoneS, NoneS)
    /\ entries = <<>>
    /\ analyzed = <<>>
    /\ flow = <<>>
    /\ diagram = NoDiagram
    /\ steps = <<>>
    /\ jar = <<>>
    /\ net = <<>>
    /\ resp = NoLocals
    /\ fbi = 0
    /\ report = NoReport
    /\ exc = NoExc
    /\ html = <<>>
    /\ decoded = Pending

VmUnchanged ==
    UNCHANGED <<final, pwb, pvm, sso, again, pc, har, args, entries, analyzed, flow, diagram, steps, jar,
                net, resp, fbi, report, exc, html, decoded>>

\* a worker thread of the pool takes the oldest queued request and enters
\* decommission_vm
VmStart(i) ==
    /\ pc = "vm"
    /\ i \in 1..Len(vmd.tasks)
    /\ vmd.tasks[i].phase = "queued"
    /\ \A j \in 1..(i - 1) : vmd.tasks[j].phase # "queued"
    /\ Running(vmd.tasks) < vmd.max_workers
    /\ vmd' = [vmd EXCEPT !.tasks[i].phase = "running"]
    /\ VmUnchanged

\* decommission_vm, dry-run branch: no call, a simulated success
VmSimulate(i) ==
    /\ pc = "vm"
    /\ i \in 1..Len(vmd.tasks)
    /\ vmd.tasks[i].phase = "running"
    /\ DryRunBranch(vmd.dry_run)
    /\ vmd' = [vmd EXCEPT !.tasks[i] =
                  VmTask("done", DecommissionResult(i, "SUCCESS", "", SimulatedData))]
    /\ VmUnchanged

\* decommission_vm, else branch: self.client.decommission_subscription is
\* called; the thread then waits in it for the answer of the web service
\* while the other threads run
VmCall(i) ==
    /\ pc = "vm"
    /\ i \in 1..Len(vmd.tasks)
    /\ vmd.tasks[i].phase = "running"
    /\ ~DryRunBranch(vmd.dry_run)
    /\ vmd' = [vmd EXCEPT !.calls = Append(@, i), !.tasks[i].phase = "calling"]
    /\ VmUnchanged

\* decommission_subscription returns or raises, and decommission_vm makes its
\* result of the outcome
VmAnswer(i) ==
    /\ pc = "vm"
    /\ i \in 1..Len(vmd.tasks)
    /\ vmd.tasks[i].phase = "calling"
    /\ \E o \in ClientOutcomes :
          vmd' = [vmd EXCEPT !.tasks[i] =
                      VmTask("done", ResultOf(i, decommission_subscription(o)))]
    /\ VmUnchanged

\* decommission_batch: as_completed hands over a finished future, its result
\* is appended to results
VmCollect(i) ==
    /\ pc = "vm"
    /\ i \in 1..Len(vmd.tasks)
    /\ vmd.tasks[i].phase = "done"
    /\ vmd' = [vmd EXCEPT !.tasks[i].phase = "collected",
                          !.results = Append(@, vmd.tasks[i].result)]
    /\ VmUnchanged

\* decommission_batch: self.results = results; return results
VmReturn ==
    /\ pc = "vm"
    /\ ~vmd.returned
    /\ \A j \in 1..Len(vmd.tasks) : vmd.tasks[j].phase = "collected"
    /\ vmd' = [vmd EXCEPT !.returned = TRUE]
    /\ VmUnchanged

NextVm ==
    \/ \E i \in 1..MaxBatch : VmStart(i)
    \/ \E i \in 1..MaxBatch : VmSimulate(i)
    \/ \E i \in 1..MaxBatch : VmCall(i)
    \/ \E i \in 1..MaxBatch : VmAnswer(i)
    \/ \E i \in 1..MaxBatch : VmCollect(i)
    \/ VmReturn

SpecVm == InitVm /\ [][NextVm]_vars

\* C15: with dry_run = true, decommission_vm and decommission_batch never call
\* PSSITClient.decommission_subscription, whatever the batch and the thread
\* interleaving, and every result (a finished decommission_vm's and those of
\* the returned list) has status SUCCESS and simulated response_data.
C15_DryRunCallsNothing ==
    (pc = "vm" /\ vmd.dry_run) =>
        /\ vmd.calls = <<>>
        /\ \A j \in 1..Len(vmd.tasks) :
              vmd.tasks[j].phase \in {"done", "collected"} =>
                  /\ vmd.tasks[j].result.status = "SUCCESS"
                  /\ vmd.tasks[j].result.response_data = SimulatedData
        /\ \A k \in 1..Len(vmd.results) :
              /\ vmd.results[k].status = "SUCCESS"
              /\ vmd.results[k].response_data.some
              /\ vmd.results[k].response_data.dry_run
              /\ vmd.results[k].response_data.status = "simulated"
        /\ vmd.returned => Len(vmd.results) = Len(vmd.tasks)

\* a dry-run batch of several requests on several threads has returned, its
\* results collected in an order other than the submission order
C15_Witness ==
    /\ pc = "vm"
    /\ vmd.dry_run
    /\ vmd.returned
    /\ vmd.max_workers >= 2
    /\ Len(vmd.results) >= 2
    /\ vmd.results[1].vm # 1

\* the entry carries POST parameters: a postData object with a non-empty params
HasPostParams(e) == e.postData.kind = "dict" /\ e.postData.params # <<>>

IsReplayStep(s) == s.action \in {"REPLAY_XHR", "REPLAY_XHR_FAILED"}

\* the URLs of the fallback replay steps, in step order
ReplayUrls == [k \in 1..Len(SelectSeq(steps, IsReplayStep)) |->
                  SelectSeq(steps, IsReplayStep)[k].url]

CarriesPost(i) == HasPostParams(analyzed[i])

\* the URLs of the POST-parameter-carrying entries among the flow positions idx
PostUrls(idx) == [k \in 1..Len(SelectSeq(idx, CarriesPost)) |->
                     analyzed[SelectSeq(idx, CarriesPost)[k]].url]

\* replay_flow has returned after a fallback loop that no SAML artifact and no
\* exception cut short
LoopRanOut ==
    /\ pc = "replayed"
    /\ Len(steps) >= 1
    /\ steps[1].action = "GET"
    /\ \A k \in 1..Len(steps) : steps[k].action \notin {"SUBMIT_FORM", "SAML_DECODE", "ERROR"}
    /\ ~resp.get.raised
    /\ \A j \in 1..Len(GetPage) : GetPage[j].tag # "form"

\* C16 as stated: after a fallback loop that nothing stopped, the entries
\* replayed are the first 10 POST-parameter-carrying entries of the flow, in
\* flow order, wherever in the flow they are.
C16_FirstTenPostCarrying ==
    LoopRanOut => ReplayUrls = Prefix(PostUrls(flow), FallbackCap)

\* C16, amended: the fallback looks at the first 10 entries of the flow only and
\* replays, in flow order, those of them that carry POST parameters; it issues
\* at most 10 replay requests, and an entry at flow position 11 or later is
\* never replayed.
C16_PostCarryingOfFirstTen ==
    /\ Len(ReplayUrls) <= FallbackCap
    /\ Len(ReplayUrls) <= Len(PostUrls(Prefix(flow, FallbackCap)))
    /\ ReplayUrls = SubSeq(PostUrls(Prefix(flow, FallbackCap)), 1, Len(ReplayUrls))
    /\ LoopRanOut => ReplayUrls = PostUrls(Prefix(flow, FallbackCap))

\* the loop ran out over a flow whose 10th and 11th entries carry POST
\* parameters: one replay, of the 10th
C16_Witness ==
    /\ LoopRanOut
    /\ Len(flow) = FallbackCap + 1
    /\ CarriesPost(flow[FallbackCap])
    /\ CarriesPost(flow[FallbackCap + 1])
    /\ ReplayUrls = <<SomeS(U_a)>>
    /\ Len(net) = 2

\* the page recorded in step k carries a SAMLResponse input whose value
\* base64-decodes
StepPageDecodable(k) ==
    LET inp == FindSamlInput(steps[k].content.v.page)
    IN  /\ inp # <<>>
        /\ inp[1].value.some
        /\ b64decode(inp[1].value.v).ok

\* C17: every fallback attempt is recorded as exactly one step (REPLAY_XHR or
\* REPLAY_XHR_FAILED), no replay step follows a SAML_DECODE step, and the loop
\* stops, with a SAML_DECODE step, only at a replay whose response carries a
\* SAMLResponse value that base64-decodes: a value that cannot be decoded does
\* not stop the loop.
C17_FallbackStopRule ==
    /\ \A k \in 1..Len(steps) : \A l \in 1..Len(steps) :
          (k < l /\ steps[k].action = "SAML_DECODE") => ~IsReplayStep(steps[l])
    /\ \A k \in 2..Len(steps) :
          (steps[k].action = "SAML_DECODE" /\ steps[k - 1].action = "REPLAY_XHR")
              => StepPageDecodable(k - 1)
    /\ (pc = "replayed" /\ ~resp.handled /\ Len(net) >= 1
            /\ \A k \in 1..Len(steps) : steps[k].action # "SUBMIT_FORM")
          => Len(ReplayUrls) >= Len(net) - 1

\* the page the initial GET landed on holds a form element
GetPageHasForm == \E j \in 1..Len(GetPage) : GetPage[j].tag = "form"

HasStep(action) == \E k \in 1..Len(steps) : steps[k].action = action

\* C18: a step list never holds both a SUBMIT_FORM step and a REPLAY_XHR or
\* REPLAY_XHR_FAILED step; replay steps occur only when the response to the
\* initial GET held no form, a SUBMIT_FORM step only when it held one.
C18_FormAndFallbackExclusive ==
    /\ ~(HasStep("SUBMIT_FORM") /\ (HasStep("REPLAY_XHR") \/ HasStep("REPLAY_XHR_FAILED")))
    /\ (HasStep("REPLAY_XHR") \/ HasStep("REPLAY_XHR_FAILED"))
          => (HasStep("GET") /\ ~resp.get.raised /\ ~GetPageHasForm)
    /\ HasStep("SUBMIT_FORM") => (HasStep("GET") /\ ~resp.get.raised /\ GetPageHasForm)
    /\ Replayed => report.steps = steps

\* the form was submitted although the flow held entries with POST parameters
\* that a fallback would have replayed
C18_Witness ==
    /\ pc = "replayed"
    /\ HasStep("SUBMIT_FORM")
    /\ GetPageHasForm
    /\ \E i \in 1..Len(flow) : CarriesPost(flow[i])
    /\ Len(net) = 2

\* the first form element of the page the initial GET landed on
GetForm == GetPage[CHOOSE j \in 1..Len(GetPage) :
                      GetPage[j].tag = "form" /\ \A i \in 1..(j - 1) : GetPage[i].tag # "form"]

\* C19: the form found on the page of the initial GET is submitted to its
\* action resolved against the URL of the page actually reached (that URL
\* itself when the form has no action), with POST exactly when the form's
\* method equals post in any case and GET otherwise.
C19_ActionResolvedAgainstPageUrl ==
    (~resp.get.raised /\ GetPageHasForm /\ Len(net) >= 2) =>
        /\ net[2].url =
              SomeS(urljoin(resp.get.url,
                            IF GetForm.action.some /\ GetForm.action.v # <<>>
                            THEN GetForm.action.v ELSE resp.get.url))
        /\ net[2].method =
              SomeS(IF GetForm.method.some /\ LowerStr(GetForm.method.v) = S_post
                    THEN S_POST ELSE S_GET)

IsUserLike(name) ==
    \/ Contains(S_user, LowerStr(name))
    \/ Contains(S_login, LowerStr(name))
    \/ Contains(S_email, LowerStr(name))

IsPassLike(name) == Contains(S_pass, LowerStr(name))

CredentialsSupplied ==
    /\ args.username.some /\ args.username.v # <<>>
    /\ args.password.some /\ args.password.v # <<>>

\* the named fields of the form found on the page of the initial GET, as
\* (name, own value) pairs; no value attribute reads as the empty string
FormNamed ==
    {<<GetForm.fields[j].name.v, SomeS(OrEmpty(GetForm.fields[j].value))>> :
        j \in {i \in 1..Len(GetForm.fields) :
                  GetForm.fields[i].name.some /\ GetForm.fields[i].name.v # <<>>}}

\* the named parameters of a flow entry, as (name, own value) pairs; no value
\* key reads as the empty string, and a null value is sent as None
EntryNamed(e) ==
    {<<e.postData.params[j].name.s, GetOrEmpty(e.postData.params[j].value)>> :
        j \in {i \in 1..Len(e.postData.params) :
                  /\ e.postData.params[i].name.k = "str"
                  /\ e.postData.params[i].name.s # <<>>}}

\* the data sent holds the named fields and nothing else
SendsExactly(data, named) ==
    /\ \A p \in named : DictHas(data, p[1])
    /\ \A i \in 1..Len(data) : \E p \in named : p[1] = data[i].k

\* the rule as stated: user-like names carry the username, pass-like names the
\* password, the others their own value
RuleAsStated(data, named) ==
    /\ SendsExactly(data, named)
    /\ \A p \in named :
          /\ IsUserLike(p[1]) => DictGet(data, p[1]) = args.username
          /\ IsPassLike(p[1]) => DictGet(data, p[1]) = args.password
          /\ (~IsUserLike(p[1]) /\ ~IsPassLike(p[1])) => DictGet(data, p[1]) = p[2]

\* the rule with the password test prevailing
RulePassFirst(data, named) ==
    /\ SendsExactly(data, named)
    /\ \A p \in named :
          DictGet(data, p[1]) =
              IF IsPassLike(p[1]) THEN args.password
              ELSE IF IsUserLike(p[1]) THEN args.username
              ELSE p[2]

\* the form submission has been sent
FormSent == ~resp.get.raised /\ GetPageHasForm /\ Len(net) >= 2

\* the requests sent by the fallback loop
FallbackSent == IF ~resp.get.raised /\ ~GetPageHasForm THEN 2..Len(net) ELSE {}

\* C20 as stated: with both credentials supplied, in the form submission and in
\* every fallback replay, each field whose name contains user, login or email
\* carries the username, each field whose name contains pass the password, and
\* every other named field its own value; unnamed inputs are not sent.
C20_SubstitutionAsStated ==
    CredentialsSupplied =>
        /\ FormSent => RuleAsStated(net[2].data, FormNamed)
        /\ \A k \in FallbackSent :
              \E i \in 1..Len(flow) :
                  /\ CarriesPost(flow[i])
                  /\ net[k].url = analyzed[flow[i]].url
                  /\ RuleAsStated(net[k].data, EntryNamed(analyzed[flow[i]]))

\* C20, amended: each field whose name contains pass carries the password, also
\* when the name contains user, login or email as well; each other field whose
\* name contains user, login or email carries the username; every other named
\* field its own value (the empty string without value attribute); unnamed
\* inputs are not sent.
C20_PasswordPrevails ==
    CredentialsSupplied =>
        /\ FormSent => RulePassFirst(net[2].data, FormNamed)
        /\ \A k \in FallbackSent :
              \E i \in 1..Len(flow) :
                  /\ CarriesPost(flow[i])
                  /\ net[k].url = analyzed[flow[i]].url
                  /\ RulePassFirst(net[k].data, EntryNamed(analyzed[flow[i]]))

\* a login form with a username, a valueless Password, a login_pass and an
\* unnamed input was submitted with both credentials
C20_Witness ==
    /\ pc = "replayed"
    /\ CredentialsSupplied
    /\ FormSent
    /\ \E j \in 1..Len(GetForm.fields) : GetForm.fields[j].name = SomeS(S_login_pass)
    /\ \E j \in 1..Len(GetForm.fields) : ~GetForm.fields[j].name.some
    /\ Len(net[2].data) = 4
    /\ DictHas(net[2].data, S_login_pass)
    /\ DictHas(net[2].data, S_username)
    /\ DictHas(net[2].data, S_note)
    /\ DictGet(net[2].data, S_login_pass) = SomeS(S_pw)
    /\ DictGet(net[2].data, S_username) = SomeS(S_bob)
    /\ DictGet(net[2].data, S_note) = SomeS(S_xyz)

(***************************************************************************)
(* The finalization of replay_flow alone, over the step lists a replay can *)
(* end with: every kind of last step, bodies on both sides of the snippet  *)
(* cap                                                                     *)
(***************************************************************************)
\* body lengths around r.text[:800]
FinalLens == {40, ContentCap - 1, ContentCap, ContentCap + 1, 2 * ContentCap}

\* the response bodies explored: JSON objects with an access_token, one of
\* them followed by blanks past the snippet cap, a JSON object whose
\* access_token is null, an HTML page with a SAML input, an HTML page without,
\* an empty body
FinalBodies ==
    {Body("json", <<>>, SomeS(S_abc123), n) : n \in FinalLens}
        \cup {PaddedBody(SomeS(S_abc123), 40, 2 * ContentCap),
              Body("json", <<>>, NoneS, 40),
              Body("html", PageSamlInput, NoneS, 120),
              Body("html", PageSamlEmpty, NoneS, 60),
              NoBody}

FinalResponses == {Response(200, U_a, b, <<>>) : b \in FinalBodies}

\* a response whose page holds a form, for the GET before a form submission
FormResponse == Response(200, U_b_saml, Body("html", PageSamlForm, NoneS, 300), <<>>)

\* the step lists replay_flow can hold when it reaches its finalization
FinalStepLists ==
    {<<>>, <<ErrorStep("InvalidURL")>>}
        \cup {<<GetStep(U_a, r, <<>>)>> : r \in FinalResponses}
        \cup {WithDecode(<<GetStep(U_a, FormResponse, <<>>), SubmitStep(r, <<>>)>>, r.body) :
                 r \in FinalResponses}
        \cup {<<GetStep(U_a, FormResponse, <<>>), ErrorStep("ConnectionError")>>}
        \cup {WithDecode(<<GetStep(U_a, r0, <<>>), ReplayStep(SomeS(U_a), r, <<>>)>>, r.body) :
                 r0 \in {q \in FinalResponses : q.body.kind = "json"}, r \in FinalResponses}
        \cup {<<GetStep(U_a, r0, <<>>), ReplayFailedStep(SomeS(U_a), "ConnectionError")>> :
                 r0 \in {q \in FinalResponses : q.body.kind = "json"}}

FinalJars == {<<>>, <<Stored(D_c, P_root, S_samlToken, S_abc123)>>}

InitFinal ==
    /\ pc = "replay_final"
    /\ steps \in FinalStepLists
    /\ jar \in FinalJars
    /\ again = <<>>
    /\ final = NoFinal
    /\ pwb = NoBatch
    /\ pvm = NoProcess
    /\ sso = NoLogin
    /\ vmd = NoVmd
    /\ har = HarOk(<<>>)
    /\ args = Args(NoneS, NoneS, NoneS)
    /\ entries = <<>>
    /\ analyzed = <<>>
    /\ flow = <<>>
    /\ diagram = NoDiagram
    /\ net = <<>>
    /\ resp = NoLocals
    /\ fbi = 0
    /\ report = NoReport
    /\ exc = NoExc
    /\ html = <<>>
    /\ decoded = Pending

NextFinal == ReplayFinalize

SpecFinal == InitFinal /\ [][NextFinal]_vars

\* C21: at finalization found_access_token is the access_token of the JSON
\* object that the response recorded in the last step carries as its body,
\* whatever the kind of the last step and the length of the body, and no
\* exception escapes.
C21_TokenSurfaced ==
    /\ pc # "crashed"
    /\ exc = NoExc
    /\ (pc = "replayed" /\ steps # <<>>) =>
          LET last == steps[Len(steps)]
          IN  (last.content.some /\ last.content.v.kind = "json"
                  /\ last.content.v.token.some)
                 => report.found_access_token = last.content.v.token

\* C22, as stated: in the flow every exchange without timestamp is placed before
\* every exchange with a timestamp, whatever its value (zero and negative
\* included), and exchanges with equal sort keys keep their archive order.
C22_AbsentBeforePresent ==
    FlowBuilt =>
        \A k \in 1..Len(flow) : \A l \in 1..Len(flow) :
            /\ (~analyzed[flow[k]].time.some /\ analyzed[flow[l]].time.some) => k < l
            /\ (k < l /\ TimeKey(flow[k]) = TimeKey(flow[l])) => flow[k] < flow[l]

\* C22, amended: an absent timestamp counts as 0, so an exchange without
\* timestamp is placed before every exchange with a positive timestamp, after
\* every exchange with a negative one, and in archive order relative to an
\* exchange whose timestamp is 0; exchanges with equal sort keys keep their
\* archive order.
C22_AbsentAsZeroStable ==
    FlowBuilt =>
        \A k \in 1..Len(flow) : \A l \in 1..Len(flow) :
            /\ (~analyzed[flow[k]].time.some /\ analyzed[flow[l]].time.some
                    /\ analyzed[flow[l]].time.v > 0) => k < l
            /\ (~analyzed[flow[k]].time.some /\ analyzed[flow[l]].time.some
                    /\ analyzed[flow[l]].time.v < 0) => l < k
            /\ (k < l /\ TimeKey(flow[k]) = TimeKey(flow[l])) => flow[k] < flow[l]
            /\ k < l => TimeKey(flow[k]) <= TimeKey(flow[l])

\* an exchange whose timestamp is 0 precedes, in the archive and in the flow, an
\* exchange without timestamp
C22_Witness ==
    /\ FlowBuilt
    /\ \E k \in 1..Len(flow) : \E l \in (k + 1)..Len(flow) :
          /\ analyzed[flow[k]].time = SomeI(0)
          /\ ~analyzed[flow[l]].time.some
          /\ flow[k] < flow[l]

(***************************************************************************)
(* load_har, extract_entries and analyze_entries over entries with         *)
(* headers and with absent or null members                                 *)
(***************************************************************************)
S_Set_Cookie == <<"S","e","t","-","C","o","o","k","i","e">>
S_Content_Type == <<"C","o","n","t","e","n","t","-","T","y","p","e">>

\* response headers naming Set-Cookie twice, in two spellings, around another
\* header, then a header without name and one without value
E_headers ==
    [BaseEntry EXCEPT !.url = SomeS(U_a),
        !.req_headers = HeaderList(<<Header(NameStr(S_Content_Type), ValueStr(S_xyz))>>),
        !.resp_headers =
            HeaderList(<<Header(NameStr(S_Set_Cookie), ValueStr(S_xyz)),
                         Header(NameStr(S_Content_Type), ValueStr(S_abc123)),
                         Header(NameStr(S_set_cookie), ValueStr(S_sid)),
                         Header(NameAbsent, ValueAbsent),
                         Header(NameStr(S_note), ValueNull)>>)]
\* request headers naming one header twice
E_headers_twice ==
    [BaseEntry EXCEPT !.url = SomeS(U_b),
        !.req_headers = HeaderList(<<Header(NameStr(S_note), ValueStr(S_xyz)),
                                     Header(NameStr(S_note), ValueStr(S_sid))>>),
        !.resp_headers = HeaderList(<<>>)]
S_ETAG == <<"U+00C9", "T", "A", "G">>
S_etag == <<"U+00E9", "t", "a", "g">>
S_KI == <<"U+212A", "U+0130">>
S_ki == <<"k", "i", "U+0307">>
S_ODOS == <<"O", "D", "O", "U+03A3">>
S_odos == <<"o", "d", "o", "U+03C2">>
\* request headers whose names differ by the case of letters past A-Z: E acute, the
\* Kelvin sign and dotted capital I against k and i with a combining dot, capital
\* sigma at the end of a word; the response headers are null
E_headers_accents ==
    [BaseEntry EXCEPT !.url = SomeS(U_b),
        !.req_headers = HeaderList(<<Header(NameStr(S_ETAG), ValueStr(S_xyz)),
                                     Header(NameStr(S_KI), ValueStr(S_xyz)),
                                     Header(NameStr(S_etag), ValueStr(S_sid)),
                                     Header(NameStr(S_ODOS), ValueStr(S_abc123)),
                                     Header(NameStr(S_ki), ValueStr(S_sid))>>),
        !.resp_headers = NullHeaders]
E_headers_null ==
    [BaseEntry EXCEPT !.url = SomeS(U_a), !.req_headers = NullHeaders,
                      !.resp_headers = NullHeaders]
E_header_name_null ==
    [BaseEntry EXCEPT !.url = SomeS(U_a),
        !.req_headers = HeaderList(<<Header(NameStr(S_note), ValueStr(S_xyz)),
                                     Header(NameNull, ValueStr(S_xyz))>>)]
E_resp_header_name_null ==
    [BaseEntry EXCEPT !.url = SomeS(U_a),
        !.resp_headers = HeaderList(<<Header(NameNull, ValueStr(S_xyz))>>)]
E_request_null ==
    [BaseEntry EXCEPT !.request = "null", !.method = NoneS]
E_response_null ==
    [BaseEntry EXCEPT !.url = SomeS(U_a), !.response = "null", !.status = NoneI]
\* an entry with neither request nor response
E_bare ==
    [BaseEntry EXCEPT !.request = "absent", !.response = "absent", !.method = NoneS,
                      !.status = NoneI, !.time = SomeI(3)]
\* url, method, status and postData null
E_nulls == [BaseEntry EXCEPT !.method = NoneS, !.status = NoneI]

ClassifyPool ==
    {E_headers, E_headers_twice, E_headers_accents, E_headers_null, E_header_name_null,
     E_resp_header_name_null, E_request_null, E_response_null, E_bare, E_nulls,
     E_null_first, E_b_saml}

\* the longest archive enumerated over ClassifyPool
MaxClassifyEntries == 2

ClassifyHars == {HarOk(es) : es \in SeqsUpTo(ClassifyPool, MaxClassifyEntries)}

InitClassify == InitRun(ClassifyHars, {Args(NoneS, NoneS, NoneS)})

NextClassify ==
    \/ LoadHar
    \/ Analyze

SpecClassify == InitClassify /\ [][NextClassify]_vars

\* C23: analyze_entries does not raise, and returns one normalized exchange per
\* entry in input order, whatever of request, response, url, method, status,
\* headers, postData, postData.params, a parameter name or a header name is
\* absent or null.
C23_ClassifierNeverThrows ==
    /\ ~(pc = "crashed" /\ exc.at = "analyze_entries")
    /\ pc = "analyzed" =>
          /\ Len(analyzed) = Len(har.entries)
          /\ \A i \in 1..Len(analyzed) :
                /\ analyzed[i].url = har.entries[i].url
                /\ analyzed[i].time = har.entries[i].time
                /\ har.entries[i].req_headers.kind # "list" => analyzed[i].request_headers = <<>>
                /\ har.entries[i].postData.kind = "absent" => analyzed[i].post_param_names = <<>>

\* the lower-cased name of header h
HeaderKey(h) == LowerStr(IF h.name.k = "str" THEN h.name.s ELSE <<>>)

\* map is the flattening of the header list hs: its keys are the lower-cased
\* names, each once, and each carries the value of the last header of that name
FlattensLastWins(map, hs) ==
    /\ {map[j].k : j \in 1..Len(map)} = {HeaderKey(hs[i]) : i \in 1..Len(hs)}
    /\ \A j \in 1..Len(map) : \A l \in 1..Len(map) : map[j].k = map[l].k => j = l
    /\ \A j \in 1..Len(map) :
          LET last == CHOOSE i \in 1..Len(hs) :
                          /\ HeaderKey(hs[i]) = map[j].k
                          /\ \A m \in (i + 1)..Len(hs) : HeaderKey(hs[m]) # map[j].k
          IN  map[j].v = GetOrEmpty(hs[last].value)

\* C27: simplify_header_list maps a header list to a map keyed by lower-cased
\* name in which a name occurring several times, also in different letter
\* case, carries the value of its last occurrence; an absent or null list
\* gives the empty map.
C27_HeaderFlattening ==
    pc = "analyzed" =>
        \A i \in 1..Len(analyzed) :
            /\ FlattensLastWins(analyzed[i].request_headers, har.entries[i].req_headers.list)
            /\ FlattensLastWins(analyzed[i].response_headers, har.entries[i].resp_headers.list)
            /\ har.entries[i].req_headers.kind \in {"absent", "null"}
                  => analyzed[i].request_headers = <<>>
            /\ har.entries[i].resp_headers.kind \in {"absent", "null"}
                  => analyzed[i].response_headers = <<>>

\* an analysed archive holding an entry whose response names Set-Cookie and
\* set-cookie, the later value kept, an entry whose five request headers, named in
\* two cases of letters past A-Z, are flattened to three and whose response header
\* list is null
C27_Witness ==
    /\ pc = "analyzed"
    /\ \E i \in 1..Len(analyzed) :
          /\ har.entries[i] = E_headers_accents
          /\ analyzed[i].request_headers =
                <<[k |-> S_etag, v |-> SomeS(S_sid)], [k |-> S_ki, v |-> SomeS(S_sid)],
                  [k |-> S_odos, v |-> SomeS(S_abc123)]>>
          /\ har.entries[i].resp_headers.kind = "null"
          /\ analyzed[i].response_headers = <<>>
    /\ \E i \in 1..Len(analyzed) :
          /\ har.entries[i] = E_headers
          /\ Len(analyzed[i].response_headers) = 4
          /\ analyzed[i].response_headers[1] = [k |-> S_set_cookie, v |-> SomeS(S_sid)]
          /\ analyzed[i].set_cookie = [has |-> TRUE, v |-> SomeS(S_sid)]

\* C24: whenever no entry of the flow has a non-empty hostname (an empty flow,
\* or URLs that are empty, host-less or missing), the diagram is rendered with
\* the (no hosts detected) line as its only topology line, without Browser->SP
\* line.
C24_NoHostsPlaceholder ==
    /\ (pc = "diagrammed" /\ DistinctHostnames = <<>>) =>
          /\ Len(LinesOfKind("no_hosts")) = 1
          /\ Len(diagram.topology) = 1
          /\ LinesOfKind("browser_sp") = <<>>
    /\ (pc = "crashed" /\ exc.at = "generate_ascii_diagram") => DistinctHostnames # <<>>

\* the order of the step list: a GET step is the first step, and is there once
\* the start URL was fetched; a SUBMIT_FORM step is the second step, after the
\* GET step; a SAML_DECODE step comes right after a SUBMIT_FORM or REPLAY_XHR
\* step and carries the text decoded from the page of that step
StepOrder ==
    /\ \A k \in 1..Len(steps) : steps[k].action = "GET" => k = 1
    /\ ~resp.get.raised => (Len(steps) >= 1 /\ steps[1].action = "GET")
    /\ \A k \in 1..Len(steps) :
          steps[k].action = "SUBMIT_FORM" => (k = 2 /\ steps[1].action = "GET")
    /\ \A k \in 1..Len(steps) :
          steps[k].action = "SAML_DECODE" =>
              /\ k > 1
              /\ steps[k - 1].action \in {"SUBMIT_FORM", "REPLAY_XHR"}
              /\ steps[k].snippet =
                    Prefix(decode_of_page[steps[k - 1].content.v.page].text,
                           SnippetCap)

\* a step of the run leaves the steps already recorded as they are, in place
StepsKept ==
    /\ Len(steps') >= Len(steps)
    /\ SubSeq(steps', 1, Len(steps)) = steps

\* C25: during a replay_flow invocation steps are only appended, never removed,
\* reordered or modified; once the start URL was fetched the first step is the
\* GET step; a SUBMIT_FORM step comes only right after the GET step; every
\* SAML_DECODE step comes right after the SUBMIT_FORM or REPLAY_XHR step whose
\* response it was decoded from.
C25_StepsAppendOnly == []StepOrder /\ [][StepsKept]_vars

\* a replay whose list grew to GET, REPLAY_XHR_FAILED, REPLAY_XHR, SAML_DECODE
C25_Witness ==
    /\ pc = "replayed"
    /\ Len(steps) = 4
    /\ steps[1].action = "GET"
    /\ steps[2].action = "REPLAY_XHR_FAILED"
    /\ steps[3].action = "REPLAY_XHR"
    /\ steps[4].action = "SAML_DECODE"

(***************************************************************************)
(* The final report of main()                                              *)
(***************************************************************************)
\* the steps of the replay report that the final report holds
FinalSteps == final.replay_report.steps

\* C26: in the final report main() assembles, flow_steps_sample has length
\* min(30, candidate_flow_length) and is the prefix of the candidate flow, in
\* flow order, each element holding only url, method, status and is_auth_like
\* of its step; candidate_flow_length is at most entry_count, and at most 50
\* when no exchange is auth-like; every content snippet of a step has at most
\* 800 characters and every SAML_DECODE snippet at most 2000.
C26_ReportBounds ==
    final.written =>
        /\ final.entry_count = Len(entries)
        /\ final.candidate_flow_length = Len(flow)
        /\ Len(final.flow_steps_sample) = Min(30, final.candidate_flow_length)
        /\ \A i \in 1..Len(final.flow_steps_sample) :
              /\ DOMAIN final.flow_steps_sample[i] =
                    {"url", "method", "status", "is_auth_like"}
              /\ final.flow_steps_sample[i].url = analyzed[flow[i]].url
              /\ final.flow_steps_sample[i].method = analyzed[flow[i]].method
              /\ final.flow_steps_sample[i].status = analyzed[flow[i]].status
              /\ final.flow_steps_sample[i].is_auth_like = analyzed[flow[i]].is_auth_like
        /\ final.candidate_flow_length <= final.entry_count
        /\ NoAuthLike => final.candidate_flow_length <= 50
        /\ \A k \in 1..Len(FinalSteps) :
              /\ FinalSteps[k].content.some => FinalSteps[k].content.v.len <= 800
              /\ FinalSteps[k].action = "SAML_DECODE" =>
                    Len(FinalSteps[k].snippet) <= 2000

\* a report written for a flow of more than 30 steps taken from a longer
\* archive, whose replay cut a page to 800 characters and decoded a SAML text
\* of more than 2000 characters, of which the report holds the first 2000
C26_Witness ==
    /\ final.written
    /\ final.candidate_flow_length > 30
    /\ final.entry_count > final.candidate_flow_length
    /\ Len(final.flow_steps_sample) = 30
    /\ \E k \in 1..Len(FinalSteps) :
          /\ FinalSteps[k].content.some
          /\ FinalSteps[k].content.v.len = 800
          /\ ~FinalSteps[k].content.v.whole
    /\ \E k \in 1..Len(FinalSteps) :
          /\ FinalSteps[k].action = "SAML_DECODE"
          /\ k > 1
          /\ FinalSteps[k - 1].content.some
          /\ decode_of_page[FinalSteps[k - 1].content.v.page].text = T_long
          /\ Len(T_long) > 2000
          /\ Len(FinalSteps[k].snippet) = 2000
          /\ FinalSteps[k].snippet = SubSeq(T_long, 1, 2000)

(***************************************************************************)
(* GestionVm.py: VMPowerManager.process_batch running process_vm for every *)
(* operation on a pool of max_workers threads                              *)
(***************************************************************************)
\* the longest list of operations handed to process_batch
MaxOps == 3
\* the largest max_workers of a VMPowerManager
MaxPool == 2

\* the (vm_name, action) pairs the lists of operations are made of
OpPairs ==
    {[vm_name |-> "vm1", action |-> "start"],
     [vm_name |-> "vm2", action |-> "reset"]}

VMOperation(vm_name, action, success, message) ==
    [vm_name |-> vm_name, action |-> action, success |-> success, message |-> message]

\* how a call of process_vm ends on its thread: it returns an operation that
\* succeeded or one that failed, or an exception leaves it
WorkerOutcomes == {"success", "failure", "raises"}

\* what the future of process_vm(vm_name, action, wait_for_state) holds
FutureOf(op, o) ==
    [raised |-> (o = "raises"),
     result |-> VMOperation(op.vm_name, op.action, o = "success", "process_vm")]

NoFuture == [raised |-> FALSE, result |-> VMOperation("", "", FALSE, "")]

PowerTask(phase, future) == [phase |-> phase, future |-> future]

\* an except clause that logs the exception and appends nothing
AfterExceptionDropped(results, op) == results

\* except Exception as e: results.append(VMOperation(vm_name=vm_name,
\* action=action, success=False, message=f"Exception: {str(e)}"))
AfterException(results, op) ==
    Append(results, VMOperation(op.vm_name, op.action, FALSE, "Exception"))

\* result = future.result(); results.append(result), or the except clause
AfterFuture(results, op, future) ==
    IF future.raised THEN AfterException(results, op)
    ELSE Append(results, future.result)

\* VMPowerManager(client, max_workers) and the operations submitted to the
\* executor by process_batch
InitBatch ==
    /\ pc = "process_batch"
    /\ \E w \in 1..MaxPool, ops \in SeqsUpTo(OpPairs, MaxOps) :
          pwb = [max_workers |-> w, operations |-> ops,
                 futures |-> [i \in 1..Len(ops) |-> PowerTask("queued", NoFuture)],
                 results |-> <<>>, returned |-> FALSE]
    /\ again = <<>>
    /\ final = NoFinal
    /\ vmd = NoVmd
    /\ pvm = NoProcess
    /\ sso = NoLogin
    /\ har = HarOk(<<>>)
    /\ args = Args(NoneS, NoneS, NoneS)
    /\ entries = <<>>
    /\ analyzed = <<>>
    /\ flow = <<>>
    /\ diagram = NoDiagram
    /\ steps = <<>>
    /\ jar = <<>>
    /\ net = <<>>
    /\ resp = NoLocals
    /\ fbi = 0
    /\ report = NoReport
    /\ exc = NoExc
    /\ html = <<>>
    /\ decoded = Pending

BatchUnchanged ==
    UNCHANGED <<final, pvm, sso, again, vmd, pc, har, args, entries, analyzed, flow,
                diagram, steps, jar, net, resp, fbi, report, exc, html, decoded>>

\* a thread of the pool takes the oldest queued call of process_vm
BatchStart(i) ==
    /\ pc = "process_batch"
    /\ i \in 1..Len(pwb.futures)
    /\ pwb.futures[i].phase = "queued"
    /\ \A j \in 1..(i - 1) : pwb.futures[j].phase # "queued"
    /\ Running(pwb.futures) < pwb.max_workers
    /\ pwb' = [pwb EXCEPT !.futures[i].phase = "running"]
    /\ BatchUnchanged

\* process_vm ends on its thread and the future is set
BatchFinish(i) ==
    /\ pc = "process_batch"
    /\ i \in 1..Len(pwb.futures)
    /\ pwb.futures[i].phase = "running"
    /\ \E o \in WorkerOutcomes :
          pwb' = [pwb EXCEPT !.futures[i] =
                     PowerTask("done", FutureOf(pwb.operations[i], o))]
    /\ BatchUnchanged

\* for future in as_completed(futures): one finished future is handed over
BatchCollect(i) ==
    /\ pc = "process_batch"
    /\ i \in 1..Len(pwb.futures)
    /\ pwb.futures[i].phase = "done"
    /\ pwb' = [pwb EXCEPT !.futures[i].phase = "collected",
                          !.results = AfterFuture(@, pwb.operations[i],
                                                  pwb.futures[i].future)]
    /\ BatchUnchanged

\* return results
BatchReturn ==
    /\ pc = "process_batch"
    /\ ~pwb.returned
    /\ \A j \in 1..Len(pwb.futures) : pwb.futures[j].phase = "collected"
    /\ pwb' = [pwb EXCEPT !.returned = TRUE]
    /\ BatchUnchanged

NextBatch ==
    \/ \E i \in 1..MaxOps : BatchStart(i)
    \/ \E i \in 1..MaxOps : BatchFinish(i)
    \/ \E i \in 1..MaxOps : BatchCollect(i)
    \/ BatchReturn

SpecBatch == InitBatch /\ [][NextBatch]_vars

\* how many elements of the sequence s carry the pair p
CountOf(s, p) ==
    Cardinality({k \in 1..Len(s) : s[k].vm_name = p.vm_name /\ s[k].action = p.action})

\* C28: whatever the list of operations, the number of threads and the order
\* in which the calls of process_vm start, end and are collected, process_batch
\* returns exactly one VMOperation per submitted (vm_name, action) pair, with
\* that pair's vm_name and action, also for a call that raised; while it runs no
\* pair has more results than submissions, and a returned result of a call that
\* raised has success = false.
C28_BatchComplete ==
    pc = "process_batch" =>
        /\ \A p \in OpPairs : CountOf(pwb.results, p) <= CountOf(pwb.operations, p)
        /\ \A k \in 1..Len(pwb.results) :
              \E p \in OpPairs : pwb.results[k].vm_name = p.vm_name
                                 /\ pwb.results[k].action = p.action
        /\ pwb.returned =>
              /\ Len(pwb.results) = Len(pwb.operations)
              /\ \A p \in OpPairs :
                    CountOf(pwb.results, p) = CountOf(pwb.operations, p)
              /\ \A i \in 1..Len(pwb.futures) :
                    pwb.futures[i].future.raised =>
                        \E k \in 1..Len(pwb.results) :
                            /\ pwb.results[k].vm_name = pwb.operations[i].vm_name
                            /\ pwb.results[k].action = pwb.operations[i].action
                            /\ ~pwb.results[k].success

\* a batch of three operations, two of them the same pair, has returned after
\* one call raised, its results in another order than the operations
C28_Witness ==
    /\ pc = "process_batch"
    /\ pwb.returned
    /\ Len(pwb.operations) = 3
    /\ pwb.operations[1] = pwb.operations[3]
    /\ pwb.operations[1] # pwb.operations[2]
    /\ pwb.futures[2].future.raised
    /\ ~pwb.futures[1].future.raised
    /\ pwb.results[1].vm_name = pwb.operations[2].vm_name
    /\ pwb.results[1].action = pwb.operations[2].action

(***************************************************************************)
(* GestionVm.py: VMPowerManager.process_vm and                             *)
(* VCenterAPIClient.wait_for_power_state                                   *)
(***************************************************************************)
\* wait_for_power_state(..., max_wait: int = 300, poll_interval: int = 5), in
\* seconds
max_wait == 300

poll_interval == 5

\* the seconds a read of the power state takes as time.time() tells them,
\* counted in steps of poll_interval: from none to speak of up to max_wait; a
\* read of max_wait seconds ends the wait at the next test of the loop, as
\* every longer read does
ReadSeconds == {k * poll_interval : k \in 0..(max_wait \div poll_interval)}

\* how many of the last reads of a wait the record of the run keeps
MaxKept == 2

\* class PowerAction(Enum)
PowerActions == {"start", "stop", "shutdown", "reset", "suspend"}

\* class VMStatus(Enum)
VMStatuses == {"POWERED_ON", "POWERED_OFF", "SUSPENDED"}

\* a map in which RESET has the target state POWERED_ON
target_state_map_with_reset(action) ==
    CASE action = "start" -> "POWERED_ON"
      [] action = "stop" -> "POWERED_OFF"
      [] action = "shutdown" -> "POWERED_OFF"
      [] action = "suspend" -> "SUSPENDED"
      [] OTHER -> "POWERED_ON"

\* target_state_map.get(action)
target_state_map(action) ==
    CASE action = "start" -> "POWERED_ON"
      [] action = "stop" -> "POWERED_OFF"
      [] action = "shutdown" -> "POWERED_OFF"
      [] action = "suspend" -> "SUSPENDED"
      [] OTHER -> NoStatus

\* a request of the client to vCenter and, for a read of the power state, the
\* state it came back with
Sent(req, seen) == [req |-> req, seen |-> seen]

\* return operation
Returned(p, success, message) ==
    [p EXCEPT !.line = "returned", !.success = success, !.message = message]

\* the state at the call process_vm(vm_name, action, wait_for_state)
InitPower ==
    /\ pc = "process_vm"
    /\ \E a \in PowerActions, w \in BOOLEAN :
          pvm = [NoProcess EXCEPT !.action = a, !.wait_for_state = w,
                                  !.line = "get_vm_by_name"]
    /\ again = <<>>
    /\ final = NoFinal
    /\ vmd = NoVmd
    /\ pwb = NoBatch
    /\ sso = NoLogin
    /\ har = HarOk(<<>>)
    /\ args = Args(NoneS, NoneS, NoneS)
    /\ entries = <<>>
    /\ analyzed = <<>>
    /\ flow = <<>>
    /\ diagram = NoDiagram
    /\ steps = <<>>
    /\ jar = <<>>
    /\ net = <<>>
    /\ resp = NoLocals
    /\ fbi = 0
    /\ report = NoReport
    /\ exc = NoExc
    /\ html = <<>>
    /\ decoded = Pending

PowerUnchanged ==
    UNCHANGED <<final, pwb, sso, again, vmd, pc, har, args, entries, analyzed, flow,
                diagram, steps, jar, net, resp, fbi, report, exc, html, decoded>>

\* vm_id = self.client.get_vm_by_name(vm_name); if not vm_id: return
PowerLookup ==
    /\ pc = "process_vm"
    /\ pvm.line = "get_vm_by_name"
    /\ \E found \in BOOLEAN :
          LET p == [pvm EXCEPT !.vm_id = found,
                               !.sent = Append(@, Sent("get_vm_by_name", NoStatus))]
          IN  pvm' = IF found THEN [p EXCEPT !.line = "get_vm_power_state"]
                     ELSE Returned(p, FALSE, "VM non trouvee")
    /\ PowerUnchanged

\* current_state = self.client.get_vm_power_state(vm_id); if not current_state:
\* return; target_state = target_state_map.get(action); if current_state ==
\* target_state: return with success
PowerReadState ==
    /\ pc = "process_vm"
    /\ pvm.line = "get_vm_power_state"
    /\ \E st \in VMStatuses \cup {NoStatus} :
          LET p == [pvm EXCEPT !.current_state = st,
                               !.sent = Append(@, Sent("get_vm_power_state", st))]
          IN  pvm' = IF st = NoStatus
                     THEN Returned(p, FALSE, "Impossible de recuperer l'etat de la VM")
                     ELSE IF st = target_state_map(pvm.action)
                     THEN Returned(p, TRUE, "VM deja dans l'etat")
                     ELSE [p EXCEPT !.line = "execute_power_action"]
    /\ PowerUnchanged

\* if not self.client.execute_power_action(vm_id, action): return; then the
\* wait when wait_for_state and target_state, else success at once
PowerExecute ==
    /\ pc = "process_vm"
    /\ pvm.line = "execute_power_action"
    /\ \E ok \in BOOLEAN :
          LET p == [pvm EXCEPT !.accepted = ok,
                               !.sent = Append(@, Sent("execute_power_action", NoStatus))]
          IN  pvm' = IF ~ok THEN Returned(p, FALSE, "Echec de l'execution")
                     ELSE IF pvm.wait_for_state /\ target_state_map(pvm.action) # NoStatus
                     THEN [p EXCEPT !.line = "wait_for_power_state", !.elapsed = 0]
                     ELSE Returned(p, TRUE, "Action lancee")
    /\ PowerUnchanged

\* what get_vm_power_state answers to a read of the wait: a state, or None
\* when the read failed; the VM may answer anything at every read
WaitAnswers == VMStatuses \cup {NoStatus}

\* the reads of the wait the record keeps, the answer st read last: the
\* MaxKept most recent ones, in the order they were made
Kept(reads, st) ==
    SubSeq(Append(reads, st), IF Len(reads) < MaxKept THEN 1 ELSE 2, Len(reads) + 1)

\* wait_for_power_state, one turn of the loop: while (time.time() -
\* start_time) < max_wait the state is read; the target state ends the wait
\* with True, any other answer is followed by time.sleep(poll_interval)
PowerPoll ==
    /\ pc = "process_vm"
    /\ pvm.line = "wait_for_power_state"
    /\ pvm.elapsed < max_wait
    /\ \E st \in WaitAnswers, d \in ReadSeconds :
          LET p == [pvm EXCEPT !.polled = Kept(@, st)]
          IN  pvm' = IF st = target_state_map(pvm.action)
                     THEN Returned(p, TRUE, "Action reussie")
                     ELSE [p EXCEPT !.elapsed = @ + d + poll_interval]
    /\ PowerUnchanged

\* wait_for_power_state: the loop condition fails, return False, and
\* process_vm reports the timeout
PowerTimeout ==
    /\ pc = "process_vm"
    /\ pvm.line = "wait_for_power_state"
    /\ pvm.elapsed >= max_wait
    /\ pvm' = Returned(pvm, FALSE, "Timeout en attendant l'etat")
    /\ PowerUnchanged

NextPower ==
    \/ PowerLookup
    \/ PowerReadState
    \/ PowerExecute
    \/ PowerPoll
    \/ PowerTimeout

SpecPower == InitPower /\ [][NextPower]_vars

\* the positions of the power action among the requests sent
ActionsSent == {k \in 1..Len(pvm.sent) : pvm.sent[k].req = "execute_power_action"}

\* the state seen by the last read of the wait, None when the wait made none:
\* the reads of the wait are the only ones made after the power action
LastPolled == IF pvm.polled = <<>> THEN NoStatus ELSE pvm.polled[Len(pvm.polled)]

\* the target state the claim gives each action; reset has none
C29_Target ==
    [a \in PowerActions |->
        CASE a = "start" -> "POWERED_ON"
          [] a = "stop" -> "POWERED_OFF"
          [] a = "shutdown" -> "POWERED_OFF"
          [] a = "suspend" -> "SUSPENDED"
          [] OTHER -> NoStatus]

\* C29: process_vm sends no power action when the VM is not found, when its
\* state cannot be read, or when it is already in the target state of the
\* action, and in the last case it reports success; when the action was sent
\* with wait_for_state and a target state exists, it reports success only if a
\* read of the state made after the action saw the target state, and reports
\* failure after a timeout; reset has no target state: once the VM is found and
\* its state read, the action is sent, no state is read after it, and success
\* is reported as soon as the request is accepted.
C29_PowerProtocol ==
    (pc = "process_vm" /\ pvm.line = "returned") =>
        \E acts \in {ActionsSent} :
            LET target == C29_Target[pvm.action]
                found == pvm.vm_id
                readable == found /\ pvm.current_state # NoStatus
                already == readable /\ pvm.current_state = target
            IN  /\ (~found \/ ~readable \/ already) => (acts = {} /\ pvm.polled = <<>>)
                /\ already => pvm.success
                /\ Cardinality(acts) <= 1
                /\ acts = {} => pvm.polled = <<>>
                /\ (acts # {} /\ pvm.wait_for_state /\ target # NoStatus) =>
                      /\ pvm.success => (pvm.polled # <<>> /\ LastPolled = target)
                      /\ (pvm.elapsed >= max_wait /\ LastPolled # target) => ~pvm.success
                /\ (pvm.action = "reset" /\ readable) =>
                      /\ acts # {}
                      /\ pvm.polled = <<>>
                      /\ pvm.success = pvm.accepted

\* a stop sent to a running VM with wait_for_state: after the action a read
\* failed, the one after it saw POWERED_OFF at the last turn the loop could
\* make, and success was reported
C29_Witness ==
    /\ pc = "process_vm"
    /\ pvm.line = "returned"
    /\ pvm.action = "stop"
    /\ pvm.wait_for_state
    /\ pvm.current_state = "POWERED_ON"
    /\ pvm.success
    /\ Len(pvm.sent) = 3
    /\ pvm.sent[3].req = "execute_power_action"
    /\ pvm.polled = <<NoStatus, "POWERED_OFF">>
    /\ pvm.elapsed = max_wait - poll_interval

(***************************************************************************)
(* SAML_v1.py: PSSITAuthenticator.get_saml_token                           *)
(***************************************************************************)
\* while resp.status_code in [301, 302, 303, 307, 308]
RedirectCodes == {301, 302, 303, 307, 308}

\* '/auth/krb/401'
S_krb_path == <<"/","a","u","t","h","/","k","r","b","/","4","0","1">>
\* 'samlv2'
S_samlv2 == <<"s","a","m","l","v","2">>

\* pssit.saas.cagip
H_pssit == <<"p","s","s","i","t",".","s","a","a","s",".","c","a","g","i","p">>
\* https://pssit.saas.cagip
U_pssit == Https \o H_pssit
\* https://i/a and https://i/b, two hops of a redirect chain
U_hop_a == Https \o <<"i","/","a">>
U_hop_b == Https \o <<"i","/","b">>
\* https://i/auth/krb/401
U_krb == Https \o <<"i">> \o S_krb_path
\* https://i/SAMLv2/sso
U_idp == Https \o <<"i","/","S","A","M","L","v","2","/","s","s","o">>

\* https://i/%73amlv2, which requests sends as https://i/samlv2
U_idp_escaped == Https \o <<"i","/","%","7","3","a","m","l","v","2">>
\* https://c/acs
U_acs == Https \o <<"c","/","a","c","s">>
\* https:/c, which starts with 'http' and has no host
U_no_host == <<"h","t","t","p","s",":","/","c">>

\* ftp://i/samlv2, for which the session has no adapter
U_ftp == <<"f","t","p",":","/","/","i","/">> \o S_samlv2
\* httpx://c/p, which starts with 'http' and for which the session has no adapter
U_httpx == <<"h","t","t","p","x",":","/","/","c","/","p">>

S_old == <<"o","l","d">>
S_local == <<".","l","o","c","a","l">>

\* http.cookiejar.eff_request_host: the name under which the cookies of a host
\* are kept, .local added to a name without dot
eff_request_host(host) == IF \E k \in 1..Len(host) : host[k] = "." THEN host ELSE host \o S_local

\* Set-Cookie: samltoken=value; Path=/ in a response of host, as
\* extract_cookies_to_jar hands it to session.cookies
SamlCookie(host, value) == Stored(eff_request_host(host), P_root, S_samltoken, value)

\* what a server answers to the GET of one URL
HopPool ==
    {Hop(302, SomeS(U_hop_a)), Hop(307, SomeS(U_hop_b)), Hop(302, SomeS(U_krb)),
     Hop(301, SomeS(U_rel)), Hop(302, NoneS), Hop(302, SomeS(<<>>)), Hop(200, NoneS),
     Hop(200, SomeS(U_krb)), Hop(200, SomeS(U_rel)), Hop(401, SomeS(U_idp)),
     HopWith(401, SomeS(U_idp), <<SamlCookie(H_pssit, S_old)>>),
     Hop(200, SomeS(U_idp_escaped)), Hop(200, SomeS(U_no_host)), Hop(200, SomeS(U_ftp)),
     Unreachable, NoAnswer}

\* a server: its answers to the GETs of https://pssit.saas.cagip, https://i/a
\* and https://i/b
Servers == [initial : HopPool, a : HopPool, b : HopPool]

\* the answer of the server to the GET of url
ServerGet(server, url) ==
    IF url = U_pssit THEN server.initial
    ELSE IF url = U_hop_a THEN server.a
    ELSE server.b

\* self.session.max_redirects = 0
max_redirects == 0

\* Response.is_redirect of requests: a redirect status and a Location header;
\* get_redirect_target gives a target that `while url` of resolve_redirects
\* takes when it is not empty
IsRedirect(r) == ~r.raised /\ r.status \in RedirectCodes /\ Truthy(r.location)

\* Session.send hands every response to resolve_redirects, with
\* allow_redirects=False as well (to compute the next request): a redirect
\* raises TooManyRedirects when len(resp.history) >= self.max_redirects, and
\* the history of a first response is empty
Limited(r, limit) == IF IsRedirect(r) /\ 0 >= limit THEN Exceeded ELSE r

\* a form with the SAMLResponse input and an absolute action
PageSamlFormAbs ==
    <<Form(SomeS(U_c), SomeS(S_POST),
           <<Field("input", SomeS(S_SAMLResponse), SomeS(SamlValue(T_xml)))>>)>>
\* a form with the SAMLResponse input and no action
PageSamlFormNoAction ==
    <<Form(NoneS, NoneS,
           <<Field("input", SomeS(S_SAMLResponse), SomeS(SamlValue(T_xml)))>>)>>
\* a form whose SAMLResponse input has no value
PageSamlFormNoValue ==
    <<Form(SomeS(U_c), SomeS(S_POST), <<Field("input", SomeS(S_SAMLResponse), NoneS)>>)>>
\* a form whose action starts with 'http' and is no URL requests sends
PageSamlFormNoHost ==
    <<Form(SomeS(U_no_host), SomeS(S_POST),
           <<Field("input", SomeS(S_SAMLResponse), SomeS(SamlValue(T_xml)))>>)>>

\* a form whose action starts with 'http' and names no scheme requests sends
PageSamlFormHttpx ==
    <<Form(SomeS(U_httpx), SomeS(S_POST),
           <<Field("input", SomeS(S_SAMLResponse), SomeS(SamlValue(T_xml)))>>)>>
\* a form whose action is the word http
PageSamlFormBare ==
    <<Form(SomeS(S_http), SomeS(S_POST),
           <<Field("input", SomeS(S_SAMLResponse), SomeS(SamlValue(T_xml)))>>)>>

\* var SAMLResponse = "PHhtbD4="; var action = "https://c/acs";
T_script_assign ==
    <<"v","a","r"," ">> \o S_SAMLResponse \o <<" ","="," ","\"">>
        \o <<"P","H","h","t","b","D","4","=">> \o <<"\"",";"," ","v","a","r"," ">>
        \o <<"a","c","t","i","o","n"," ","="," ","\"">> \o U_acs \o <<"\"",";">>
\* post({"SAMLResponse": "PHhtbD4="})
T_script_post ==
    <<"p","o","s","t","(","{","\"">> \o S_SAMLResponse \o <<"\"",":"," ","\"">>
        \o <<"P","H","h","t","b","D","4","=">> \o <<"\"","}",")">>
\* a page with an empty script, a script that names SAMLResponse without
\* assigning it, and the script that assigns it
PageSamlScript ==
    <<Script(NoneS), Script(SomeS(S_SAMLResponse)), Script(SomeS(T_script_assign))>>
\* a page whose script hands the SAMLResponse over without an action
PageSamlScriptPost == <<Script(SomeS(T_script_post))>>

\* what the server answers to session.get(krb_url, auth=auth,
\* allow_redirects=True): its status and Location header, its page, and the
\* cookies it sets in the session
Landing(status, location, page, cookies) ==
    [raised |-> FALSE, status |-> status, location |-> location, error |-> "",
     page |-> page, cookies |-> cookies]
NoLanding ==
    [raised |-> TRUE, status |-> 0, location |-> NoneS, error |-> "ConnectionError",
     page |-> <<>>, cookies |-> <<>>]

H_i == <<"i">>
H_b == <<"b">>
H_c == <<"c">>

KrbOutcomes ==
    {NoLanding,
     Landing(0, NoneS, <<>>, <<>>),
     Landing(302, SomeS(U_idp), <<>>, <<>>),
     Landing(401, NoneS, <<>>, <<>>),
     Landing(200, NoneS, PageLoginForm, <<>>),
     Landing(200, NoneS, PageSamlFormAbs, <<>>),
     Landing(200, NoneS, PageSamlFormAbs, <<SamlCookie(H_i, S_xyz)>>),
     Landing(200, NoneS, PageSamlFormAbs, <<SamlCookie(H_i, <<>>)>>),
     Landing(200, NoneS, PageSamlForm, <<>>),
     Landing(200, NoneS, PageSamlFormNoAction, <<>>),
     Landing(200, NoneS, PageSamlFormNoValue, <<>>),
     Landing(200, NoneS, PageSamlFormNoHost, <<>>),
     Landing(200, NoneS, PageSamlFormHttpx, <<>>),
     Landing(200, NoneS, PageSamlFormBare, <<>>),
     Landing(200, NoneS, PageSamlScript, <<>>),
     Landing(200, NoneS, PageSamlScriptPost, <<>>)}

\* what session.post(action_url, data=post_data, allow_redirects=True) does
\* under max_redirects = 30: it raises, it never returns, or it returns after
\* the responses of the chain it followed set these cookies, in this order
Posted(cookies) == [raised |-> FALSE, status |-> 200, error |-> "", cookies |-> cookies]
PostFailed(error) == [raised |-> TRUE, status |-> 0, error |-> error, cookies |-> <<>>]

PostOutcomes ==
    {PostFailed("ConnectionError"), PostFailed("TooManyRedirects"),
     [Posted(<<>>) EXCEPT !.status = 0],
     Posted(<<>>),
     Posted(<<SamlCookie(H_c, S_abc123)>>),
     Posted(<<SamlCookie(H_c, <<>>)>>),
     Posted(<<SamlCookie(H_c, S_xyz), SamlCookie(H_c, S_abc123)>>),
     Posted(<<SamlCookie(H_c, S_abc123), SamlCookie(H_b, S_xyz)>>),
     Posted(<<SamlCookie(H_c, <<>>), SamlCookie(H_b, <<>>)>>)}

\* no timeout is passed to session.get or session.post: without a status line
\* the call does not return
Waits(r) == ~r.raised /\ r.status = 0

\* the end of the run of characters of cs that begins at position p of s: the
\* first position from p on whose character is not of cs
RunEnd(s, p, cs) ==
    IF \E j \in p..Len(s) : s[j] \notin cs
    THEN CHOOSE j \in p..Len(s) : s[j] \notin cs /\ \A k \in p..(j - 1) : s[k] \in cs
    ELSE Len(s) + 1

\* ["\']
Quotes == {"\"", "'"}

\* ["\']([^"\']+) at position r of s: where group 1 begins, 0 without a match
QuotedAt(s, r) ==
    IF r >= Len(s) \/ s[r] \notin Quotes \/ s[r + 1] \in Quotes THEN 0 ELSE r + 1

\* [:=]\s*["\']([^"\']+) at position q of s
AssignedAt(s, q) ==
    IF q > Len(s) \/ s[q] \notin {":", "="} THEN 0
    ELSE QuotedAt(s, RunEnd(s, q + 1, UnicodeSpace))

\* ["\']?\s*[:=]\s*["\']([^"\']+) at position p of s
NamedAt(s, p) ==
    AssignedAt(s, RunEnd(s, IF p <= Len(s) /\ s[p] \in Quotes THEN p + 1 ELSE p,
                         UnicodeSpace))

\* the pattern name["\']?\s*[:=]\s*["\']([^"\']+) matched at position i of s
MatchAt(name, s, i) ==
    IF i + Len(name) - 1 > Len(s) THEN 0
    ELSE IF SubSeq(s, i, i + Len(name) - 1) # name THEN 0
    ELSE NamedAt(s, i + Len(name))

\* group 1 of the match that begins at the position start of s
GroupFrom(s, start) == SubSeq(s, start, FirstOf(s, Quotes, start) - 1)

\* re.search(name + r'["\']?\s*[:=]\s*["\']([^"\']+)', s): group 1 of the
\* leftmost match, None without a match
re_search_assigned(name, s) ==
    IF \A i \in 1..Len(s) : MatchAt(name, s, i) = 0 THEN NoneS
    ELSE SomeS(GroupFrom(s, MatchAt(name, s,
                   CHOOSE i \in 1..Len(s) :
                       /\ MatchAt(name, s, i) > 0
                       /\ \A j \in 1..(i - 1) : MatchAt(name, s, j) = 0)))

S_action == <<"a","c","t","i","o","n">>

\* a form that holds an input named SAMLResponse
CarriesSaml(e) ==
    /\ e.tag = "form"
    /\ \E j \in 1..Len(e.fields) :
          e.fields[j].tag = "input" /\ e.fields[j].name = SomeS(S_SAMLResponse)

\* a script whose string has SAMLResponse in it and the pattern matches
AssignsSaml(e) ==
    /\ e.tag = "script"
    /\ Truthy(e.value)
    /\ Contains(S_SAMLResponse, e.value.v)
    /\ re_search_assigned(S_SAMLResponse, e.value.v).some

\* what _extract_saml_response makes of the first form that holds the input
FromForm(form) ==
    [found |-> TRUE,
     value |-> form.fields[CHOOSE j \in 1..Len(form.fields) :
                               /\ form.fields[j].tag = "input"
                               /\ form.fields[j].name = SomeS(S_SAMLResponse)
                               /\ \A i \in 1..(j - 1) :
                                     ~(form.fields[i].tag = "input"
                                       /\ form.fields[i].name = SomeS(S_SAMLResponse))].value,
     action |-> form.action]

\* and of the first script that assigns it
FromScript(text) ==
    [found |-> TRUE, value |-> re_search_assigned(S_SAMLResponse, text),
     action |-> re_search_assigned(S_action, text)]

\* _extract_saml_response: the first form holding an input named
\* SAMLResponse gives the value of that input and its own action; without
\* such a form, the first script that assigns SAMLResponse gives the value
\* and the action it assigns, if any
extract_saml_response(page) ==
    IF \E k \in 1..Len(page) : CarriesSaml(page[k])
    THEN FromForm(FirstWhere(page, CarriesSaml)[1])
    ELSE IF \E k \in 1..Len(page) : AssignsSaml(page[k])
    THEN FromScript(FirstWhere(page, AssignsSaml)[1].value.v)
    ELSE NoSaml

\* the URLs the servers name in Location headers and in the actions of their
\* pages
SsoUrls ==
    {h.location.v : h \in {x \in HopPool : x.location.some}}
        \cup {extract_saml_response(o.page).action.v :
                 o \in {x \in KrbOutcomes : extract_saml_response(x.page).action.some}}

\* what session.request makes of a URL, prepared being what prepare_url comes
\* to: the exception it raises before anything is sent, without and with an
\* auth of the request, or the URL the request is sent to
RequestTo(prepared) ==
    [error |-> SendError(prepared, TRUE),
     with_auth |-> SendError(prepared, FALSE),
     url |-> IF SendError(prepared, FALSE) = "" THEN prepared.url ELSE <<>>]

\* what session.request makes of each of them
Requests == [u \in SsoUrls |-> RequestTo(UrlPrepared(u))]

\* the loop condition: resp.status_code in [301, 302, 303, 307, 308]
StillRedirecting(r) == r.status \in RedirectCodes

\* except Exception as e: print(...); raise
SsoRaise(s, error) == [s EXCEPT !.line = "ended", !.outcome = "raised", !.error = error]

\* return token
SsoReturn(s, token) ==
    [s EXCEPT !.line = "ended", !.outcome = "returned", !.value = SomeS(token)]

\* the state at the call get_saml_token() of a new PSSITAuthenticator
InitSaml ==
    /\ pc = "get_saml_token"
    /\ \E sv \in Servers : sso = [NoLogin EXCEPT !.server = sv, !.line = "initial"]
    /\ again = <<>>
    /\ final = NoFinal
    /\ vmd = NoVmd
    /\ pwb = NoBatch
    /\ pvm = NoProcess
    /\ har = HarOk(<<>>)
    /\ args = Args(NoneS, NoneS, NoneS)
    /\ entries = <<>>
    /\ analyzed = <<>>
    /\ flow = <<>>
    /\ diagram = NoDiagram
    /\ steps = <<>>
    /\ jar = <<>>
    /\ net = <<>>
    /\ resp = NoLocals
    /\ fbi = 0
    /\ report = NoReport
    /\ exc = NoExc
    /\ html = <<>>
    /\ decoded = Pending

SamlUnchanged ==
    UNCHANGED <<final, pwb, pvm, again, vmd, pc, har, args, entries, analyzed, flow,
                diagram, steps, jar, net, resp, fbi, report, exc, html, decoded>>

\* extract_cookies_to_jar: the cookies of an answer go to session.cookies
\* before the answer is looked at
Received(s, r) == [s EXCEPT !.cookies = JarUpdate(@, r.cookies)]

\* what get_saml_token does with the outcome of session.get(url,
\* allow_redirects=False)
AfterGet(s, answer) ==
    IF Waits(answer) THEN [s EXCEPT !.line = "blocked"]
    ELSE IF answer.raised THEN SsoRaise(s, answer.error)
    ELSE IF Limited(answer, max_redirects).raised
    THEN SsoRaise(Received(s, answer), Limited(answer, max_redirects).error)
    ELSE [Received(s, answer) EXCEPT !.resp = answer, !.line = "redirects"]

\* resp = self.session.get(initial_url, allow_redirects=False)
SsoInitialGet ==
    /\ pc = "get_saml_token"
    /\ sso.line = "initial"
    /\ sso' = AfterGet(sso, ServerGet(sso.server, U_pssit))
    /\ SamlUnchanged

\* location = resp.headers.get('Location') and the test of the Kerberos
\* endpoint in it
Follow(s) ==
    IF ~s.resp.location.some
    THEN SsoRaise([s EXCEPT !.location = Bound(NoneS)], "TypeError")
    ELSE IF Contains(S_krb_path, s.resp.location.v)
    THEN [s EXCEPT !.location = Bound(s.resp.location), !.line = "kerberos"]
    ELSE [s EXCEPT !.location = Bound(s.resp.location), !.line = "fetch"]

\* a turn of the redirect loop begins: location is read, and the Kerberos
\* endpoint breaks the loop
SsoFollow ==
    /\ pc = "get_saml_token"
    /\ sso.line = "redirects"
    /\ StillRedirecting(sso.resp)
    /\ sso' = Follow(sso)
    /\ SamlUnchanged

\* resp = self.session.get(location, allow_redirects=False), request being
\* what the session makes of location
Fetch(s, request) ==
    IF request.error # "" THEN SsoRaise(s, request.error)
    ELSE AfterGet(s, ServerGet(s.server, s.location.v.v))

\* resp = self.session.get(location, allow_redirects=False), and back to the
\* loop condition
SsoFetch ==
    /\ pc = "get_saml_token"
    /\ sso.line = "fetch"
    /\ sso' = Fetch(sso, Requests[sso.location.v.v])
    /\ SamlUnchanged

\* the loop condition fails
SsoLoopExit ==
    /\ pc = "get_saml_token"
    /\ sso.line = "redirects"
    /\ ~StillRedirecting(sso.resp)
    /\ sso' = [sso EXCEPT !.line = "kerberos"]
    /\ SamlUnchanged

\* what get_saml_token does with the response resp_krb: current_url =
\* resp_krb.url, the test of 'samlv2' in it and _extract_saml_response
AfterKerberos(s, saml) ==
    IF ~Contains(S_samlv2, LowerStr(s.current_url.v)) THEN SsoRaise(s, "Flux inattendu")
    ELSE IF ~saml.found THEN SsoRaise(s, "SAMLResponse non trouvee")
    ELSE IF ~saml.value.some THEN SsoRaise(s, "TypeError")
    ELSE [s EXCEPT !.saml = saml, !.line = "submit"]

\* what get_saml_token does with the outcome o of session.get(krb_url,
\* auth=auth, allow_redirects=True), request being what the session makes of
\* krb_url: under max_redirects it follows no redirect, so that resp_krb.url
\* is the URL the request went to
AfterKerberosGet(s, request, o) ==
    IF request.with_auth # "" THEN SsoRaise(s, request.with_auth)
    ELSE IF Waits(o) THEN [s EXCEPT !.line = "blocked"]
    ELSE IF o.raised THEN SsoRaise(s, o.error)
    ELSE IF Limited(o, max_redirects).raised
    THEN SsoRaise(Received(s, o), Limited(o, max_redirects).error)
    ELSE AfterKerberos([Received(s, o) EXCEPT !.current_url = SomeS(request.url)],
                       extract_saml_response(o.page))

\* krb_url = resp.headers.get('Location') or location, and the request to it
Kerberos(s, o) ==
    IF ~Truthy(s.resp.location) /\ ~s.location.bound THEN SsoRaise(s, "UnboundLocalError")
    ELSE AfterKerberosGet(s,
                          Requests[IF Truthy(s.resp.location) THEN s.resp.location.v
                                   ELSE s.location.v.v],
                          o)

\* krb_url = resp.headers.get('Location') or location; resp_krb =
\* self.session.get(krb_url, auth=auth, allow_redirects=True); then the test
\* of resp_krb.url and _extract_saml_response
SsoKerberos ==
    /\ pc = "get_saml_token"
    /\ sso.line = "kerberos"
    /\ \E o \in KrbOutcomes : sso' = Kerberos(sso, o)
    /\ SamlUnchanged

\* the cookies of jar j that carry the name
Named(j, name) == {i \in 1..Len(j) : j[i].k = name}

\* RequestsCookieJar._find_no_duplicates(name): CookieConflictError at the
\* second cookie of the name, KeyError without a cookie of the name or when
\* the value of the only one is empty, and its value otherwise
find_no_duplicates(j, name) ==
    IF Cardinality(Named(j, name)) > 1 THEN [error |-> "CookieConflictError", v |-> <<>>]
    ELSE IF \A i \in Named(j, name) : j[i].v = <<>> THEN [error |-> "KeyError", v |-> <<>>]
    ELSE [error |-> "", v |-> j[CHOOSE i \in Named(j, name) : TRUE].v]

\* name in session.cookies: __contains__ of RequestsCookieJar answers True to
\* a CookieConflictError, and that of Mapping False to a KeyError
jar_contains(j, name) == find_no_duplicates(j, name).error # "KeyError"

\* the end of _submit_saml_response and of get_saml_token over the session s
\* after the POST: if 'samltoken' in self.session.cookies: return
\* self.session.cookies['samltoken'], else None and the exception of line 91
AfterPost(s) ==
    IF ~jar_contains(s.cookies, S_samltoken)
    THEN SsoRaise(s, "Impossible de recuperer le token")
    ELSE IF find_no_duplicates(s.cookies, S_samltoken).error # ""
    THEN SsoRaise(s, find_no_duplicates(s.cookies, S_samltoken).error)
    ELSE SsoReturn(s, find_no_duplicates(s.cookies, S_samltoken).v)

\* the POST of _submit_saml_response with outcome o, over the session s
Post(s, o) ==
    IF Waits(o) THEN [s EXCEPT !.line = "blocked"]
    ELSE IF o.raised THEN SsoRaise(s, o.error)
    ELSE AfterPost(s)

\* _submit_saml_response(saml_response) where o is what the POST does and
\* request what the session makes of the action
Submit(s, o, request) ==
    IF ~s.saml.action.some THEN SsoRaise(s, "AttributeError")
    ELSE IF Prefix(s.saml.action.v, 4) # S_http THEN SsoRaise(s, "TypeError")
    ELSE IF request.error # "" THEN SsoRaise(s, request.error)
    ELSE Post([s EXCEPT !.posted = TRUE, !.cookies = JarUpdate(@, o.cookies)], o)

\* token = self._submit_saml_response(saml_response); return token, or raise
SsoSubmit ==
    /\ pc = "get_saml_token"
    /\ sso.line = "submit"
    /\ \E o \in PostOutcomes : sso' = Submit(sso, o, Requests[sso.saml.action.v])
    /\ SamlUnchanged

NextSaml ==
    \/ SsoInitialGet
    \/ SsoFollow
    \/ SsoFetch
    \/ SsoLoopExit
    \/ SsoKerberos
    \/ SsoSubmit

\* get_saml_token runs on its thread without being suspended for ever
SpecSaml == InitSaml /\ [][NextSaml]_vars /\ WF_vars(NextSaml)

\* the call has ended: it returned or it raised
SsoEnded == sso.line = "ended"

\* a value is returned only when it is the non-empty value of the one samltoken
\* cookie of the session after the POST of the SAMLResponse; every other end is
\* an exception
SsoTokenOrException ==
    /\ sso.outcome = "returned" =>
          /\ SsoEnded
          /\ sso.posted
          /\ sso.value.some
          /\ sso.value.v # <<>>
          /\ \E i \in 1..Len(sso.cookies) :
                /\ sso.cookies[i].k = S_samltoken
                /\ sso.cookies[i].v = sso.value.v
                /\ \A m \in 1..Len(sso.cookies) : sso.cookies[m].k = S_samltoken => m = i
    /\ (SsoEnded /\ sso.outcome # "returned") => sso.outcome = "raised"

\* C30: for every server (a cycle of redirects that never reaches
\* /auth/krb/401 and an initial answer that is no redirect included)
\* get_saml_token ends, the redirect loop after finitely many requests, and it
\* returns a value only when that value is the non-empty samltoken cookie
\* present after the SAMLResponse was POSTed to the action; in every other
\* outcome it raises.
C30_TerminatesTokenOrException ==
    /\ [](pc = "get_saml_token" => SsoTokenOrException)
    /\ (pc = "get_saml_token") ~> SsoEnded

====
